---- MODULE Spec2Model ----
(***************************************************************************)
(* A model of the client core of finite_state_sdk:                         *)
(*   - get_all_paginated_results   (cursor paginator)                      *)
(*   - upload_file_for_binary_analysis, file_chunks (chunked uploader)     *)
(*   - TokenCache                  (token cache on disk, one process and   *)
(*                                  several processes on one cache path)   *)
(*   - generate_report_download_url, generate_sbom_download_url and the    *)
(*     download functions          (export poller and file download)       *)
(*   - send_graphql_query          (one GraphQL request)                   *)
(* Each component has its own specification over the shared variables.     *)
(*                                                                         *)
(* Python values are encoded as follows.  An optional value (one that may  *)
(* be None) is a sequence of length at most one: None is << >> and the     *)
(* value x is << x >>.  A dict entry that may be missing is a record field *)
(* that may be missing from the record's DOMAIN.                           *)
(***************************************************************************)
EXTENDS Integers, Sequences, FiniteSets, TLC

VARIABLES
    \* ---- get_all_paginated_results ----
    pg_pc,          \* "start", "loop", "done" (returned), "failed" (raised)
    pg_field,       \* argument field ("" when not given)
    pg_limit,       \* argument limit (optional integer)
    pg_variables,   \* argument variables: the dict [first, after], mutated in place
    pg_results,     \* local results
    pg_cursor,      \* local cursor (optional)
    pg_error,       \* the message of the exception raised ("" when none)
    pg_requests,    \* history: the variables of every request sent, in order
    pg_pages        \* history: every response received, in order

VARIABLES
    \* ---- upload_file_for_binary_analysis ----
    up_pc,          \* "start", "chunk", "put", "launch", "done", "failed"
    up_args,        \* arguments [test_id, file_path, chunk_size, quick_scan]
    up_file_size,   \* size of the file at file_path
    up_upload_id,   \* local upload_id (optional)
    up_upload_key,  \* local upload_key (optional)
    up_i,           \* local i
    up_part_data,   \* local part_data
    up_url,         \* local chunk_upload_url (optional)
    up_key,         \* local key (optional)
    up_error,       \* the exception raised ("" when none)
    up_calls        \* history: every network call made with its reply, in order

VARIABLES
    \* ---- TokenCache ----
    tc_token,       \* self.token (optional)
    tc_file,        \* the file self.token_file: None when it does not exist,
                    \* else its [content, mtime]
    tc_now,         \* time.time(), in seconds
    tc_issued,      \* history: tc_issued[t] is when the API issued token t
    tc_api_calls,   \* history: calls of get_auth_token so far
    tc_last,        \* history: the last get_token call (optional)
    tc_op           \* history: the last method called on the object

VARIABLES
    \* ---- generate_*_download_url and download_* ----
    ex_pc,          \* "start", "sleep", "query", "get", "done", "failed"
    ex_fn,          \* the function called
    ex_args,        \* its arguments [asset_version_id, product_id, type, subtype]
    ex_job,         \* local export_job_id (optional)
    ex_total_time,  \* local total_time
    ex_url,         \* the URL the generator returned (optional)
    ex_error,       \* the exception raised (optional)
    ex_calls,       \* history: every sleep and network call, in order
    ex_file,        \* the file output_filename: None when it does not exist,
                    \* else its content
    ex_file0        \* history: that file when the function was called

VARIABLES
    \* ---- send_graphql_query ----
    sq_pc,          \* "ready", "post", "respond"
    sq_operation,   \* what the query string of the call is: "query", "mutation"
    sq_posts,       \* history: requests.post calls of the call
    sq_response,    \* local response (optional)
    sq_log          \* history: every finished call, in order

VARIABLES
    \* ---- TokenCache, several processes on one cache path ----
    rc_pc,          \* per process: the statement of get_token it is at, or
                    \* "returned", "raised"
    rc_token,       \* per process: self.token (optional)
    rc_fd,          \* per process: the file its open handle is on (optional)
    rc_result,      \* per process: what get_token returned (optional)
    rc_error,       \* per process: the exception get_token raised ("" when none)
    rc_lost,        \* history, per process: another process removed the file
                    \* after this one saw it exist
    rc_torn,        \* history, per process: it read the file while another
                    \* process had it open for writing
    rc_issued,      \* tokens issued by the API so far
    rc_path,        \* the directory entry token.txt: the file it names (optional)
    rc_inodes       \* every file token.txt has named: its [content, mtime]

VARIABLES
    \* ---- upload_test_results_file, update_finding_statuses ----
    wr_pc,          \* "start", "put", "launch", "done", "failed"
    wr_fn,          \* the function called
    wr_args,        \* its arguments
    wr_url,         \* local upload_url (optional)
    wr_key,         \* local key (optional)
    wr_error,       \* the exception raised (optional)
    wr_calls        \* history: every network call made with its reply, in order

VARIABLES
    \* ---- get_all_business_units, get_all_users, ... ----
    ls_pc,          \* "ready" (between calls), "first", "loop"
    ls_fn,          \* the listing function running ("" when none)
    ls_variables,   \* queries.ALL_*['variables']: one module-level dict each
    ls_server,      \* the server: how many records each collection holds
    ls_results,     \* local results of the paginator
    ls_cursor,      \* local cursor of the paginator
    ls_calls        \* history: every call, its requests and how it ended

VARIABLES
    \* ---- TokenCache objects and client ids ----
    ci_client_id,   \* self.client_id of every TokenCache object (optional)
    ci_token,       \* self.token of every TokenCache object (optional)
    ci_files,       \* the token files: path -> content (None: no such file)
    ci_issued,      \* history: how many tokens the API has issued
    ci_calls        \* history: every get_token call and what it returned

pg_vars == << pg_pc, pg_field, pg_limit, pg_variables, pg_results, pg_cursor,
              pg_error, pg_requests, pg_pages >>

up_vars == << up_pc, up_args, up_file_size, up_upload_id, up_upload_key, up_i,
              up_part_data, up_url, up_key, up_error, up_calls >>

tc_vars == << tc_token, tc_file, tc_now, tc_issued, tc_api_calls, tc_last,
              tc_op >>

ex_vars == << ex_pc, ex_fn, ex_args, ex_job, ex_total_time, ex_url, ex_error,
              ex_calls, ex_file, ex_file0 >>

sq_vars == << sq_pc, sq_operation, sq_posts, sq_response, sq_log >>

rc_vars == << rc_pc, rc_token, rc_fd, rc_result, rc_error, rc_lost, rc_torn,
              rc_issued, rc_path, rc_inodes >>

wr_vars == << wr_pc, wr_fn, wr_args, wr_url, wr_key, wr_error, wr_calls >>

ls_vars == << ls_pc, ls_fn, ls_variables, ls_server, ls_results, ls_cursor,
            ls_calls >>

ci_vars == << ci_client_id, ci_token, ci_files, ci_issued, ci_calls >>

vars == << pg_vars, up_vars, tc_vars, ex_vars, sq_vars, rc_vars,
          wr_vars,
          ls_vars,
          ci_vars >>

\* what a step of one component leaves alone: the state of the others
PgFrame == UNCHANGED << up_vars, tc_vars, ex_vars, sq_vars, rc_vars,
    wr_vars,
    ls_vars,
    ci_vars >>
UpFrame == UNCHANGED << pg_vars, tc_vars, ex_vars, sq_vars, rc_vars,
    wr_vars,
    ls_vars,
    ci_vars >>
TcFrame == UNCHANGED << pg_vars, up_vars, ex_vars, sq_vars, rc_vars,
    wr_vars,
    ls_vars,
    ci_vars >>
ExFrame == UNCHANGED << pg_vars, up_vars, tc_vars, sq_vars, rc_vars,
    wr_vars,
    ls_vars,
    ci_vars >>
SqFrame == UNCHANGED << pg_vars, up_vars, tc_vars, ex_vars, rc_vars,
    wr_vars,
    ls_vars,
    ci_vars >>
RcFrame == UNCHANGED << pg_vars, up_vars, tc_vars, ex_vars, sq_vars,
    wr_vars,
    ls_vars,
    ci_vars >>
WrFrame == UNCHANGED << pg_vars, up_vars, tc_vars, ex_vars, sq_vars, rc_vars,
    ls_vars,
    ci_vars >>
LsFrame == UNCHANGED << pg_vars, up_vars, tc_vars, ex_vars, sq_vars, rc_vars, wr_vars,
    ci_vars >>
CiFrame == UNCHANGED << pg_vars, up_vars, tc_vars, ex_vars, sq_vars, rc_vars, wr_vars, ls_vars >>

\* ------------------------------------------------------------------------
\* Python values

None == << >>
Some(x) == << x >>
Val(o) == o[1]

\* bool(o) of an optional integer: None and 0 are falsy
Truthy(o) == o # None /\ Val(o) # 0

Last(s) == s[Len(s)]

\* ------------------------------------------------------------------------
\* Bounds of the model

MaxPageLen == 2     \* most records in one server page
MaxRequests == 4    \* most requests of one paginated call
MaxFileBlocks == 3  \* largest file, in multiples of the smallest chunk size
MaxDays == 2        \* the clock stops an hour after this many days
MaxApiCalls == 2    \* most calls of the token API
MaxPolls == 3       \* most status queries of one export
MaxSends == 3       \* most calls of send_graphql_query by one client

\* ------------------------------------------------------------------------
\* get_all_paginated_results

MAX_PAGE_SIZE == 1000

FieldArgs == { "", "allGroups" }
LimitArgs == { None, Some(-1), Some(0), Some(1), Some(2), Some(3), Some(4),
               Some(MAX_PAGE_SIZE), Some(MAX_PAGE_SIZE + 1) }
FirstArgs == { None, Some(-5), Some(0), Some(1), Some(2),
               Some(MAX_PAGE_SIZE), Some(MAX_PAGE_SIZE + 1) }

\* The checks at the top of the function, in order; "" when all pass.
PgLimitTooLarge(limit) == Truthy(limit) /\ Val(limit) > MAX_PAGE_SIZE

PgFirstTooLargeBug(first) == Val(first) > MAX_PAGE_SIZE + 1
PgFirstTooLarge(first) == Val(first) > MAX_PAGE_SIZE

PgFirstMissing(first) == ~Truthy(first)

PgValidate(field, limit, variables) ==
    IF field = "" THEN "Error: field is required"
    ELSE IF PgLimitTooLarge(limit) THEN "Error: limit cannot be greater than 1000"
    ELSE IF Truthy(limit) /\ Val(limit) < 1 THEN "Error: limit cannot be less than 1"
    ELSE IF PgFirstMissing(variables.first) THEN "Error: first is required"
    ELSE IF Val(variables.first) < 1 THEN "Error: first cannot be less than 1"
    ELSE IF PgFirstTooLarge(variables.first) THEN "Error: limit cannot be greater than 1000"
    ELSE ""

\* The server.  Records are numbered in the order the server hands them out,
\* so every record is distinct and the order of a result list is visible.
\* A record's cursor is its own number; the last record of a page may instead
\* carry a null cursor or no _cursor key at all.  A page holds at most
\* variables.first records (the meaning of `first` in the API).
Record(id, cursor) == [id |-> id, cursor |-> cursor]
RecordNoCursorKey(id) == [id |-> id]

LastKinds == { "cursor", "null", "nokey" }

MkPage(base, n, lastKind) ==
    [ i \in 1..n |->
        IF i < n \/ lastKind = "cursor" THEN Record(base + i, Some(base + i))
        ELSE IF lastKind = "null" THEN Record(base + i, None)
        ELSE RecordNoCursorKey(base + i) ]

\* records handed out so far
RECURSIVE Served(_)
Served(pages) ==
    IF pages = << >> THEN 0
    ELSE Served(SubSeq(pages, 1, Len(pages) - 1))
         + (IF Last(pages).kind = "page" THEN Len(Last(pages).records) ELSE 0)

Min(a, b) == IF a < b THEN a ELSE b

\* Every reply send_graphql_query can get for a request:
\*   http_error      status code other than 200
\*   graphql_errors  200 with "errors" in the body
\*   empty_json      200 with a falsy body ({})
\*   no_field        200, data lacks the field asked for
\*   page            200, data[field] is a list of records
Responses(pages, first) ==
    { [kind |-> k] : k \in { "http_error", "graphql_errors", "empty_json", "no_field" } }
    \cup { [kind |-> "page", records |-> << >>] }
    \cup { [kind |-> "page", records |-> MkPage(Served(pages), n, lk)] :
             n \in 1..Min(MaxPageLen, Val(first)), lk \in LastKinds }

\* send_graphql_query: the reply raises unless it is a 200 without errors
SendRaises(resp) == resp.kind \in { "http_error", "graphql_errors" }
SendError(resp) ==
    IF resp.kind = "http_error" THEN "Error: status_code - text"
    ELSE "Error: errors"

PgInit ==
    /\ pg_pc = "start"
    /\ pg_field \in FieldArgs
    /\ pg_limit \in LimitArgs
    /\ pg_variables \in [first : FirstArgs, after : { None }]
    /\ pg_results = << >>
    /\ pg_cursor = None
    /\ pg_error = ""
    /\ pg_requests = << >>
    /\ pg_pages = << >>

\* an exception leaves the function
PgFailBug(msg) ==
    /\ pg_pc' = pg_pc
    /\ pg_error' = msg
PgFail(msg) ==
    /\ pg_pc' = "failed"
    /\ pg_error' = msg

\* lines 1293-1304: a check fails, the call raises
PgValidateFail ==
    /\ PgFrame
    /\ pg_pc = "start"
    /\ PgValidate(pg_field, pg_limit, pg_variables) # ""
    /\ PgFail(PgValidate(pg_field, pg_limit, pg_variables))
    /\ UNCHANGED << pg_field, pg_limit, pg_variables, pg_results, pg_cursor,
                    pg_requests, pg_pages >>

\* results.extend(page)
PgExtendBug(results, page) == page \o results
PgExtend(results, page) == results \o page

\* lines 1306-1324: the first request and what follows it up to the loop
PgFirstPage ==
    /\ PgFrame
    /\ pg_pc = "start"
    /\ PgValidate(pg_field, pg_limit, pg_variables) = ""
    /\ \E resp \in Responses(pg_pages, pg_variables.first) :
        /\ pg_requests' = Append(pg_requests, pg_variables)
        /\ pg_pages' = Append(pg_pages, resp)
        /\ IF SendRaises(resp)
             THEN PgFail(SendError(resp)) /\ UNCHANGED << pg_results, pg_cursor >>
           ELSE IF resp.kind = "empty_json"
             THEN /\ pg_pc' = "done"
                  /\ UNCHANGED << pg_results, pg_cursor, pg_error >>
           ELSE IF resp.kind = "no_field"
             THEN /\ PgFail("Error: field not in response JSON")
                  /\ UNCHANGED << pg_results, pg_cursor >>
           ELSE /\ pg_results' = PgExtend(<< >>, resp.records)
                /\ IF Len(resp.records) > 0
                     THEN IF "cursor" \in DOMAIN Last(resp.records)
                            THEN /\ pg_cursor' = Last(resp.records).cursor
                                 /\ pg_pc' = "loop"
                                 /\ UNCHANGED pg_error
                            ELSE PgFail("KeyError: _cursor") /\ UNCHANGED pg_cursor
                     ELSE /\ pg_pc' = "done"
                          /\ UNCHANGED << pg_cursor, pg_error >>
    /\ UNCHANGED << pg_field, pg_limit, pg_variables >>

\* line 1327: if limit and len(results) == limit: break
PgLimitReachedBug(limit, results) == Truthy(limit) /\ Len(results) > Val(limit)
PgLimitReached(limit, results) == Truthy(limit) /\ Len(results) = Val(limit)

\* line 1326: while cursor
PgContinueBug(cursor) == TRUE
PgContinue(cursor) == Truthy(cursor)

\* lines 1326-1328, 1342: the loop ends and the results are returned
PgReturn ==
    /\ PgFrame
    /\ pg_pc = "loop"
    /\ \/ ~PgContinue(pg_cursor)
       \/ PgLimitReached(pg_limit, pg_results)
    /\ pg_pc' = "done"
    /\ UNCHANGED << pg_field, pg_limit, pg_variables, pg_results, pg_cursor,
                    pg_error, pg_requests, pg_pages >>

\* lines 1330-1340: one more page
PgNextPage ==
    /\ PgFrame
    /\ pg_pc = "loop"
    /\ PgContinue(pg_cursor)
    /\ ~PgLimitReached(pg_limit, pg_results)
    /\ Len(pg_requests) < MaxRequests
    /\ pg_variables' = [pg_variables EXCEPT !.after = pg_cursor]
    /\ \E resp \in Responses(pg_pages, pg_variables.first) :
        /\ pg_requests' = Append(pg_requests, pg_variables')
        /\ pg_pages' = Append(pg_pages, resp)
        /\ IF SendRaises(resp)
             THEN PgFail(SendError(resp)) /\ UNCHANGED << pg_results, pg_cursor >>
           ELSE IF resp.kind = "empty_json"
             THEN PgFail("KeyError: data") /\ UNCHANGED << pg_results, pg_cursor >>
           ELSE IF resp.kind = "no_field"
             THEN PgFail("KeyError: field") /\ UNCHANGED << pg_results, pg_cursor >>
           ELSE /\ pg_results' = PgExtend(pg_results, resp.records)
                /\ IF Len(resp.records) = 0
                     THEN \* IndexError: no additional cursor
                          /\ pg_cursor' = None
                          /\ UNCHANGED << pg_pc, pg_error >>
                     ELSE IF "cursor" \in DOMAIN Last(resp.records)
                            THEN /\ pg_cursor' = Last(resp.records).cursor
                                 /\ UNCHANGED << pg_pc, pg_error >>
                            ELSE PgFail("KeyError: _cursor") /\ UNCHANGED pg_cursor
    /\ UNCHANGED << pg_field, pg_limit >>

PgNext == PgValidateFail \/ PgFirstPage \/ PgReturn \/ PgNextPage

\* no paginated call in progress
PgIdle ==
    /\ pg_pc = "idle"
    /\ pg_field = ""
    /\ pg_limit = None
    /\ pg_variables = [first |-> None, after |-> None]
    /\ pg_results = << >>
    /\ pg_cursor = None
    /\ pg_error = ""
    /\ pg_requests = << >>
    /\ pg_pages = << >>

\* ------------------------------------------------------------------------
\* upload_file_for_binary_analysis
\*
\* Sizes are counted in KiB: the three size constants of the source are
\* multiples of 1024**2 bytes, and Python integers do not overflow.

DEFAULT_CHUNK_SIZE == 1024 * 1000
MAX_CHUNK_SIZE == 1024 * 2000
MIN_CHUNK_SIZE == 1024 * 5

\* 2 GiB, the maximum the comment of MAX_CHUNK_SIZE and the docstring name
TwoGiB == 1024 * 1024 * 2

TestIdArgs == { "", "mock_test_id" }
FilePathArgs == { "", "mock_file_path" }
ChunkSizeArgs ==
    { MIN_CHUNK_SIZE - 1, MIN_CHUNK_SIZE, MIN_CHUNK_SIZE + 1, DEFAULT_CHUNK_SIZE,
      MAX_CHUNK_SIZE - 1, MAX_CHUNK_SIZE, TwoGiB - 1, TwoGiB, TwoGiB + 1 }
FileSizes ==
    { 0, 1 } \cup { k * MIN_CHUNK_SIZE + r : k \in 1..MaxFileBlocks, r \in { 0, 1 } }

UploadIds == { "upload_id_1", "upload_id_2" }
UploadKeys == { "upload_key_1" }
UploadUrls == { "upload_url_1", "upload_url_2" }
ETags == { "etag_a", "etag_b" }
CompleteKeys == { "complete_key_1", "complete_key_2" }

\* f.read(n) at position pos of a file of `size`: the number of bytes read
FileReadBug(pos, size, n) ==
    IF n < 0 THEN size - pos ELSE Min(n, size - pos + 1)
FileRead(pos, size, n) == IF n < 0 THEN size - pos ELSE Min(n, size - pos)

\* file_chunks: the chunks it yields, each as its offset and length
RECURSIVE FileChunksFrom(_, _, _)
FileChunksFrom(pos, size, chunk_size) ==
    IF FileRead(pos, size, chunk_size) > 0
      THEN << [offset |-> pos, length |-> FileRead(pos, size, chunk_size)] >>
           \o FileChunksFrom(pos + FileRead(pos, size, chunk_size), size, chunk_size)
      ELSE << >>

file_chunks(size, chunk_size) == FileChunksFrom(0, size, chunk_size)

\* The checks at the top of the function, in order; "" when all pass.
UpChunkTooSmall(chunk_size) == chunk_size < MIN_CHUNK_SIZE

UpChunkTooLargeBug(chunk_size) == chunk_size > TwoGiB
UpChunkTooLarge(chunk_size) == chunk_size >= MAX_CHUNK_SIZE

UpValidate(args) ==
    IF args.test_id = "" THEN "ValueError: Test Id is required"
    ELSE IF args.file_path = "" THEN "ValueError: File Path is required"
    ELSE IF UpChunkTooSmall(args.chunk_size)
      THEN "ValueError: Chunk size must be greater than MIN_CHUNK_SIZE bytes"
    ELSE IF UpChunkTooLarge(args.chunk_size)
      THEN "ValueError: Chunk size must be less than MAX_CHUNK_SIZE bytes"
    ELSE ""

\* the outcomes of a GraphQL call that raise in send_graphql_query
GraphqlFailures == { "http_error", "graphql_errors" }

UpInit ==
    /\ up_pc = "start"
    /\ up_args \in [test_id : TestIdArgs, file_path : FilePathArgs,
                    chunk_size : ChunkSizeArgs, quick_scan : BOOLEAN]
    /\ up_file_size \in FileSizes
    /\ up_upload_id = None
    /\ up_upload_key = None
    /\ up_i = 0
    /\ up_part_data = << >>
    /\ up_url = None
    /\ up_key = None
    /\ up_error = ""
    /\ up_calls = << >>

\* an exception leaves the function
UpFailBug(msg) ==
    /\ up_pc' = up_pc
    /\ up_error' = msg
UpFail(msg) ==
    /\ up_pc' = "failed"
    /\ up_error' = msg

\* lines 2085-2092: a check fails, the call raises
UpValidateFail ==
    /\ UpFrame
    /\ up_pc = "start"
    /\ UpValidate(up_args) # ""
    /\ UpFail(UpValidate(up_args))
    /\ UNCHANGED << up_args, up_file_size, up_upload_id, up_upload_key, up_i,
                    up_part_data, up_url, up_key, up_calls >>

\* lines 2094-2117: startMultipartUploadV2
UpStart ==
    /\ UpFrame
    /\ up_pc = "start"
    /\ UpValidate(up_args) = ""
    /\ \/ \E f \in GraphqlFailures :
            /\ up_calls' = Append(up_calls,
                   [op |-> "start", testId |-> up_args.test_id, reply |-> f])
            /\ UpFail(SendError([kind |-> f]))
            /\ UNCHANGED << up_upload_id, up_upload_key >>
       \/ \E id \in UploadIds, k \in UploadKeys :
            /\ up_calls' = Append(up_calls,
                   [op |-> "start", testId |-> up_args.test_id, reply |-> "ok",
                    returned |-> [uploadId |-> id, key |-> k]])
            /\ up_upload_id' = Some(id)
            /\ up_upload_key' = Some(k)
            /\ up_pc' = "chunk"
            /\ UNCHANGED up_error
    /\ UNCHANGED << up_args, up_file_size, up_i, up_part_data, up_url, up_key >>

UpChunks == file_chunks(up_file_size, up_args.chunk_size)

\* lines 2118-2137: the next chunk is read, generateUploadPartUrlV2
UpPartUrl ==
    /\ UpFrame
    /\ up_pc = "chunk"
    /\ up_i < Len(UpChunks)
    /\ up_i' = up_i + 1
    /\ \/ \E f \in GraphqlFailures :
            /\ up_calls' = Append(up_calls,
                   [op |-> "part_url", partNumber |-> up_i', uploadId |-> Val(up_upload_id),
                    uploadKey |-> Val(up_upload_key), reply |-> f])
            /\ UpFail(SendError([kind |-> f]))
            /\ UNCHANGED up_url
       \/ \E u \in UploadUrls :
            /\ up_calls' = Append(up_calls,
                   [op |-> "part_url", partNumber |-> up_i', uploadId |-> Val(up_upload_id),
                    uploadKey |-> Val(up_upload_key), reply |-> "ok",
                    returned |-> u])
            /\ up_url' = Some(u)
            /\ up_pc' = "put"
            /\ UNCHANGED up_error
    /\ UNCHANGED << up_args, up_file_size, up_upload_id, up_upload_key,
                    up_part_data, up_key >>

\* lines 2142-2145: part_data.append({"ETag": ..., "PartNumber": i})
UpAppendPartBug(part_data, etag, i) ==
    Append(part_data, [ETag |-> etag, PartNumber |-> i - 1])
UpAppendPart(part_data, etag, i) ==
    Append(part_data, [ETag |-> etag, PartNumber |-> i])

\* lines 2139-2145, 2279-2284: upload_bytes_to_url and the part it records
UpPut ==
    /\ UpFrame
    /\ up_pc = "put"
    /\ \/ /\ up_calls' = Append(up_calls,
                   [op |-> "put", url |-> Val(up_url), chunk |-> UpChunks[up_i],
                    reply |-> "http_error"])
          /\ UpFail("Error: status_code - text")
          /\ UNCHANGED up_part_data
       \/ /\ up_calls' = Append(up_calls,
                   [op |-> "put", url |-> Val(up_url), chunk |-> UpChunks[up_i],
                    reply |-> "ok_no_etag"])
          /\ UpFail("KeyError: ETag")
          /\ UNCHANGED up_part_data
       \/ \E e \in ETags :
            /\ up_calls' = Append(up_calls,
                   [op |-> "put", url |-> Val(up_url), chunk |-> UpChunks[up_i],
                    reply |-> "ok", etag |-> e])
            /\ up_part_data' = UpAppendPart(up_part_data, e, up_i)
            /\ up_pc' = "chunk"
            /\ UNCHANGED up_error
    /\ UNCHANGED << up_args, up_file_size, up_upload_id, up_upload_key, up_i,
                    up_url, up_key >>

\* lines 2147-2170: the file is exhausted, completeMultipartUploadV2
UpComplete ==
    /\ UpFrame
    /\ up_pc = "chunk"
    /\ up_i >= Len(UpChunks)
    /\ \/ \E f \in GraphqlFailures :
            /\ up_calls' = Append(up_calls,
                   [op |-> "complete", partData |-> up_part_data,
                    uploadId |-> Val(up_upload_id), uploadKey |-> Val(up_upload_key),
                    reply |-> f])
            /\ UpFail(SendError([kind |-> f]))
            /\ UNCHANGED up_key
       \/ \E k \in CompleteKeys :
            /\ up_calls' = Append(up_calls,
                   [op |-> "complete", partData |-> up_part_data,
                    uploadId |-> Val(up_upload_id), uploadKey |-> Val(up_upload_key),
                    reply |-> "ok", returned |-> k])
            /\ up_key' = Some(k)
            /\ up_pc' = "launch"
            /\ UNCHANGED up_error
    /\ UNCHANGED << up_args, up_file_size, up_upload_id, up_upload_key, up_i,
                    up_part_data, up_url >>

\* lines 2167-2181: the variables of launchBinaryUploadProcessing
UpLaunchVariablesBug(key, args) ==
    [key |-> key, testId |-> args.test_id]
UpLaunchVariables(key, args) ==
    IF args.quick_scan
      THEN [key |-> key, testId |-> args.test_id, configurationOptions |-> << "QUICK_SCAN" >>]
      ELSE [key |-> key, testId |-> args.test_id]

\* lines 2172-2193: launchBinaryUploadProcessing
UpLaunch ==
    /\ UpFrame
    /\ up_pc = "launch"
    /\ \/ \E f \in GraphqlFailures :
            /\ up_calls' = Append(up_calls,
                   [op |-> "launch", variables |-> UpLaunchVariables(Val(up_key), up_args),
                    reply |-> f])
            /\ UpFail(SendError([kind |-> f]))
       \/ /\ up_calls' = Append(up_calls,
                   [op |-> "launch", variables |-> UpLaunchVariables(Val(up_key), up_args),
                    reply |-> "ok"])
          /\ up_pc' = "done"
          /\ UNCHANGED up_error
    /\ UNCHANGED << up_args, up_file_size, up_upload_id, up_upload_key, up_i,
                    up_part_data, up_url, up_key >>

UpNext == UpValidateFail \/ UpStart \/ UpPartUrl \/ UpPut \/ UpComplete \/ UpLaunch

\* no upload in progress
UpIdle ==
    /\ up_pc = "idle"
    /\ up_args = [test_id |-> "", file_path |-> "", chunk_size |-> DEFAULT_CHUNK_SIZE,
                  quick_scan |-> FALSE]
    /\ up_file_size = 0
    /\ up_upload_id = None
    /\ up_upload_key = None
    /\ up_i = 0
    /\ up_part_data = << >>
    /\ up_url = None
    /\ up_key = None
    /\ up_error = ""
    /\ up_calls = << >>

\* ------------------------------------------------------------------------
\* TokenCache (one organization context, one process at a time)

TOKEN_MAX_AGE == 24 * 60 * 60
Hour == 60 * 60

\* the times at which something happens: an hour before, at, and an hour
\* after every full day
ClockTimes ==
    { t \in { d * 24 * Hour + r * Hour : d \in 0..MaxDays, r \in { -1, 0, 1 } } : t >= 0 }

\* line 50: os.path.getmtime(self.token_file) < time.time() - 24 * 60 * 60
TcIsStaleBug(mtime, now) == mtime <= now - TOKEN_MAX_AGE
TcIsStale(mtime, now) == mtime < now - TOKEN_MAX_AGE

\* lines 17-35: TokenCache(organization_context), on an empty cache directory
TcInit ==
    /\ tc_token = None
    /\ tc_file = None
    /\ tc_now = 0
    /\ tc_issued = << >>
    /\ tc_api_calls = 0
    /\ tc_last = None
    /\ tc_op = "__init__"

\* what get_token records of itself
TcCall(api, removed, wrote, outcome, result) ==
    Some([time |-> tc_now, pre_token |-> tc_token, pre_file |-> tc_file,
          pre_op |-> tc_op,
          api_calls |-> api, removed |-> removed, wrote |-> wrote,
          outcome |-> outcome, result |-> result])

\* lines 37-43: _get_token_from_api, after `removed` says whether the file was
\* deleted before it; get_auth_token returns a new token or raises
TcFetch(removed) ==
    /\ tc_api_calls < MaxApiCalls
    /\ tc_api_calls' = tc_api_calls + 1
    /\ \/ LET new == Len(tc_issued) + 1 IN
            /\ tc_issued' = Append(tc_issued, tc_now)
            /\ tc_token' = Some(new)
            /\ tc_file' = Some([content |-> new, mtime |-> tc_now])
            /\ tc_last' = TcCall(1, removed, Some(new), "returned", Some(new))
       \/ /\ tc_token' = None
          /\ tc_file' = None
          /\ tc_last' = TcCall(1, removed, None, "raised", None)
          /\ UNCHANGED tc_issued

\* lines 45-68: get_token
TcGetToken ==
    /\ TcFrame
    /\ UNCHANGED tc_now
    /\ tc_op' = "get_token"
    /\ IF tc_token = None
         THEN IF tc_file # None
                THEN IF TcIsStale(Val(tc_file).mtime, tc_now)
                       THEN \* invalidate_token, then _get_token_from_api
                            TcFetch(TRUE)
                       ELSE /\ tc_token' = Some(Val(tc_file).content)
                            /\ tc_last' = TcCall(0, FALSE, None, "returned", tc_token')
                            /\ UNCHANGED << tc_file, tc_issued, tc_api_calls >>
                ELSE TcFetch(FALSE)
         ELSE /\ tc_last' = TcCall(0, FALSE, None, "returned", tc_token)
              /\ UNCHANGED << tc_token, tc_file, tc_issued, tc_api_calls >>

\* lines 73-74: the file after `if os.path.exists: os.remove`
TcRemoveFileBug(file) == file
TcRemoveFile(file) == None

\* lines 70-74: invalidate_token
TcInvalidateToken ==
    /\ TcFrame
    /\ tc_token' = None
    /\ tc_file' = TcRemoveFile(tc_file)
    /\ tc_op' = "invalidate_token"
    /\ UNCHANGED << tc_now, tc_issued, tc_api_calls, tc_last >>

\* lines 17-35: the script runs again and builds a new TokenCache for the same
\* organization context; the file stays as it is
TcNewCache ==
    /\ TcFrame
    /\ tc_token' = None
    /\ tc_op' = "__init__"
    /\ UNCHANGED << tc_file, tc_now, tc_issued, tc_api_calls, tc_last >>

\* time passes
TcTick ==
    /\ TcFrame
    /\ \E t \in ClockTimes :
        /\ t > tc_now
        /\ tc_now' = t
    /\ UNCHANGED << tc_token, tc_file, tc_issued, tc_api_calls, tc_last,
                    tc_op >>

TcNext == TcGetToken \/ TcInvalidateToken \/ TcNewCache \/ TcTick

\* no token cache in use
TcIdle ==
    /\ tc_token = None
    /\ tc_file = None
    /\ tc_now = 0
    /\ tc_issued = << >>
    /\ tc_api_calls = 0
    /\ tc_last = None
    /\ tc_op = ""

\* ------------------------------------------------------------------------
\* Exports: generate_report_download_url, generate_sbom_download_url and the
\* three download functions built on them
\*
\* ex_args is [asset_version_id, product_id, type, subtype]; type and subtype
\* are report_type and report_subtype, or sbom_type and sbom_subtype.  A
\* missing argument (None) is "".  An exception is [cls, msg, code].

ReportFunctions == { "generate_report_download_url",
                     "download_asset_version_report",
                     "download_product_report" }
SbomFunctions == { "generate_sbom_download_url", "download_sbom" }
DownloadFunctions == { "download_asset_version_report",
                       "download_product_report", "download_sbom" }

IdArgs == { "", "id_1" }
ReportTypeArgs == { "", "CSV", "PDF", "XML" }
ReportSubtypeArgs == { "", "ALL_FINDINGS", "RISK_SUMMARY" }
SbomTypeArgs == { "", "CYCLONEDX", "SPDX", "XML" }
SbomSubtypeArgs == { "", "SBOM_ONLY", "VDR_ONLY" }

\* the arguments each function can hand to the URL generator
ExArgs(fn) ==
    { a \in [asset_version_id : IdArgs, product_id : IdArgs,
             type : ReportTypeArgs \cup SbomTypeArgs,
             subtype : ReportSubtypeArgs \cup SbomSubtypeArgs] :
        /\ fn \in ReportFunctions =>
               a.type \in ReportTypeArgs /\ a.subtype \in ReportSubtypeArgs
        /\ fn \in SbomFunctions =>
               /\ a.type \in SbomTypeArgs /\ a.subtype \in SbomSubtypeArgs
               /\ a.product_id = ""
        /\ fn = "download_asset_version_report" => a.product_id = ""
        /\ fn = "download_product_report" => a.asset_version_id = "" }

\* what the server can answer
JobIds == { None, Some("job_1"), Some("job_2") }
Statuses == { "RUNNING", "FAILED", "COMPLETED" }
Links == { None, Some(""), Some("url_x"), Some("url_y") }
GetStatusCodes == { 200, 404, 500 }
Contents == { "bytes_a", "bytes_b" }

\* bool(o) of an optional string: None and "" are falsy
StrTruthyBug(o) == o # None
StrTruthy(o) == o # None /\ Val(o) # ""

SLEEP_TIME == 10

Raised(cls, msg) == Some([cls |-> cls, msg |-> msg, code |-> None])

\* the exception send_graphql_query raises for a failed reply
ExSendError(kind) ==
    IF kind = "http_error" THEN Raised("Exception", "Error: status_code - text")
    ELSE Raised("Exception", "Error: errors")

\* _create_LAUNCH_REPORT_EXPORT_MUTATION: the mutation, "" when the function
\* leaves its local unassigned
LaunchReportMutation(a) ==
    IF a.asset_version_id # "" /\ a.type = "CSV" THEN "launchArtifactCSVExport"
    ELSE IF a.asset_version_id # "" /\ a.type = "PDF" THEN "launchArtifactPdfExport"
    ELSE IF a.product_id # "" /\ a.type = "CSV" THEN "launchProductCSVExport"
    ELSE ""

\* the checks of generate_report_download_url before its launch, in order
ReportValidate(a) ==
    IF a.type = "" THEN Raised("ValueError", "Report Type is required")
    ELSE IF a.subtype = ""
        THEN Raised("ValueError", "Report Subtype is required")
    ELSE IF a.asset_version_id = "" /\ a.product_id = ""
        THEN Raised("ValueError", "Asset Version ID or Product ID is required")
    ELSE IF a.asset_version_id # "" /\ a.product_id # ""
        THEN Raised("ValueError",
                    "Asset Version ID and Product ID are mutually exclusive")
    ELSE IF a.type \notin { "CSV", "PDF" }
        THEN Raised("Exception", "Report Type not supported")
    ELSE IF a.type = "CSV" /\ a.subtype \notin { "ALL_FINDINGS",
                              "ALL_COMPONENTS", "EXPLOIT_INTELLIGENCE" }
        THEN Raised("Exception", "Report Subtype not supported")
    ELSE IF a.type = "PDF" /\ a.subtype \notin { "RISK_SUMMARY" }
        THEN Raised("Exception", "Report Subtype not supported")
    ELSE IF LaunchReportMutation(a) = ""
        THEN Raised("UnboundLocalError", "mutation")
    ELSE None

\* the checks of generate_sbom_download_url before its launch, in order
SbomValidate(a) ==
    IF a.type = "" THEN Raised("ValueError", "SBOM Type is required")
    ELSE IF a.subtype = "" THEN Raised("ValueError", "SBOM Subtype is required")
    ELSE IF a.asset_version_id = ""
        THEN Raised("ValueError", "Asset Version ID is required")
    ELSE IF a.type \notin { "CYCLONEDX", "SPDX" }
        THEN Raised("Exception", "SBOM Type not supported")
    ELSE IF a.type = "CYCLONEDX" /\ a.subtype \notin { "SBOM_ONLY",
                                    "SBOM_WITH_VDR", "VDR_ONLY" }
        THEN Raised("Exception", "SBOM Subtype not supported")
    ELSE IF a.type = "SPDX" /\ a.subtype \notin { "SBOM_ONLY" }
        THEN Raised("Exception", "SBOM Subtype not supported")
    ELSE None

ExValidate(fn, a) ==
    IF fn \in ReportFunctions THEN ReportValidate(a) ELSE SbomValidate(a)

\* the launch mutation sent
ExMutation(fn, a) ==
    IF fn \in ReportFunctions THEN LaunchReportMutation(a)
    ELSE IF a.type = "CYCLONEDX" THEN "launchCycloneDxExport"
    ELSE "launchSpdxExport"

ExStatusCalls == SelectSeq(ex_calls, LAMBDA c : c.op = "status")

ExInit ==
    /\ ex_pc = "start"
    /\ ex_fn \in ReportFunctions \cup SbomFunctions
    /\ ex_args \in ExArgs(ex_fn)
    /\ ex_job = None
    /\ ex_total_time = 0
    /\ ex_url = None
    /\ ex_error = None
    /\ ex_calls = << >>
    /\ ex_file \in { None, Some("bytes_old") }
    /\ ex_file \in { None } \/ ex_fn \in DownloadFunctions
    /\ ex_file0 = ex_file

ExFail(err) ==
    /\ ex_pc' = "failed"
    /\ ex_error' = err

\* one of the checks before the launch raises
ExValidateFail ==
    /\ ExFrame
    /\ ex_pc = "start"
    /\ ExValidate(ex_fn, ex_args) # None
    /\ ExFail(ExValidate(ex_fn, ex_args))
    /\ UNCHANGED << ex_file0, ex_fn, ex_args, ex_job, ex_total_time, ex_url, ex_calls,
                    ex_file >>

\* where the loop starts and restarts: at its sleep
ExLoopTopBug == "query"
ExLoopTop == "sleep"

\* the launch mutation and the reading of its exportJobId
ExLaunch ==
    /\ ExFrame
    /\ ex_pc = "start"
    /\ ExValidate(ex_fn, ex_args) = None
    /\ \/ \E kind \in GraphqlFailures :
            /\ ex_calls' = Append(ex_calls,
                   [op |-> "launch", mutation |-> ExMutation(ex_fn, ex_args),
                    reply |-> kind])
            /\ ExFail(ExSendError(kind))
            /\ UNCHANGED ex_job
       \/ \E id \in JobIds :
            /\ ex_calls' = Append(ex_calls,
                   [op |-> "launch", mutation |-> ExMutation(ex_fn, ex_args),
                    reply |-> "ok", exportJobId |-> id])
            /\ ex_job' = id
            /\ IF StrTruthy(id)
                 THEN ex_pc' = ExLoopTop /\ UNCHANGED ex_error
                 ELSE ExFail(Raised("Exception",
                                    "Error: Export Job ID not found"))
    /\ UNCHANGED << ex_file0, ex_fn, ex_args, ex_total_time, ex_url, ex_file >>

\* the loop condition: while True
ExWhileBug(total_time) == total_time < 2 * SLEEP_TIME
ExWhile(total_time) == TRUE

\* the top of the loop: time.sleep(sleep_time); total_time += sleep_time
ExSleep ==
    /\ ExFrame
    /\ ex_pc = "sleep"
    /\ ExWhile(ex_total_time)
    /\ Len(ExStatusCalls) < MaxPolls
    /\ ex_calls' = Append(ex_calls, [op |-> "sleep", seconds |-> SLEEP_TIME])
    /\ ex_total_time' = ex_total_time + SLEEP_TIME
    /\ ex_pc' = "query"
    /\ UNCHANGED << ex_file0, ex_fn, ex_args, ex_job, ex_url, ex_error, ex_file >>

\* the end of polling: the reply to a status query makes the function return
ExCompletedBug(status, link) == StrTruthy(link)
ExCompleted(status, link) == status = "COMPLETED" /\ StrTruthy(link)

\* the rest of the loop body: the status query and the test of its reply
ExStatus ==
    /\ ExFrame
    /\ ex_pc = "query"
    /\ \/ \E kind \in GraphqlFailures :
            /\ ex_calls' = Append(ex_calls,
                   [op |-> "status", exportId |-> Val(ex_job), reply |-> kind])
            /\ ExFail(ExSendError(kind))
            /\ UNCHANGED ex_url
       \/ \E status \in Statuses, link \in Links :
            /\ ex_calls' = Append(ex_calls,
                   [op |-> "status", exportId |-> Val(ex_job), reply |-> "ok",
                    status |-> status, downloadLink |-> link])
            /\ IF ExCompleted(status, link)
                 THEN /\ ex_url' = link
                      /\ ex_pc' = IF ex_fn \in DownloadFunctions
                                    THEN "get" ELSE "done"
                 ELSE /\ ex_pc' = ExLoopTop
                      /\ UNCHANGED ex_url
            /\ UNCHANGED ex_error
    /\ UNCHANGED << ex_file0, ex_fn, ex_args, ex_job, ex_total_time, ex_file >>

\* the test of the response to the GET
ExGetOkBug(code) == code < 500
ExGetOk(code) == code = 200

\* the download functions after the URL: requests.get(url), then the file
ExGet ==
    /\ ExFrame
    /\ ex_pc = "get"
    /\ \E code \in GetStatusCodes, content \in Contents :
         /\ ex_calls' = Append(ex_calls,
                [op |-> "get", url |-> Val(ex_url), status_code |-> code,
                 content |-> content])
         /\ IF ExGetOk(code)
              THEN /\ ex_file' = Some(content)
                   /\ ex_pc' = "done"
                   /\ UNCHANGED ex_error
              ELSE /\ ExFail(Some([cls |-> "Exception",
                       msg |-> "Failed to download the file. Status code: ",
                       code |-> Some(code)]))
                   /\ UNCHANGED ex_file
    /\ UNCHANGED << ex_file0, ex_fn, ex_args, ex_job, ex_total_time, ex_url >>

ExNext ==
    \/ ExValidateFail
    \/ ExLaunch
    \/ ExSleep
    \/ ExStatus
    \/ ExGet

\* the exports when another component is being observed
ExIdle ==
    /\ ex_pc = "idle"
    /\ ex_fn = ""
    /\ ex_args = [asset_version_id |-> "", product_id |-> "", type |-> "",
                  subtype |-> ""]
    /\ ex_job = None
    /\ ex_total_time = 0
    /\ ex_url = None
    /\ ex_error = None
    /\ ex_calls = << >>
    /\ ex_file = None
    /\ ex_file0 = None

\* ------------------------------------------------------------------------
\* send_graphql_query: a client that sends one operation after another
\*
\* A response is [status_code, text, errors]: errors tells whether the JSON
\* body of a 200 has an "errors" entry.  An exception is [cls, msg,
\* status_code, text, errors]: its class, the fixed part of its message and
\* what the message was formatted with.

Operations == { "query", "mutation" }

SqResponses ==
    { [status_code |-> 200, text |-> "json", errors |-> FALSE],
      [status_code |-> 200, text |-> "json", errors |-> TRUE],
      [status_code |-> 404, text |-> "Not Found", errors |-> FALSE],
      [status_code |-> 500, text |-> "Internal Server Error", errors |-> FALSE] }

SqInit ==
    /\ sq_pc = "ready"
    /\ sq_operation = ""
    /\ sq_posts = 0
    /\ sq_response = None
    /\ sq_log = << >>

\* the caller hands a query string to send_graphql_query
SqCall ==
    /\ SqFrame
    /\ sq_pc = "ready"
    /\ Len(sq_log) < MaxSends
    /\ \E op \in Operations : sq_operation' = op
    /\ sq_posts' = 0
    /\ sq_response' = None
    /\ sq_pc' = "post"
    /\ UNCHANGED sq_log

\* response = requests.post(API_URL, headers=headers, json=data)
SqPost ==
    /\ SqFrame
    /\ sq_pc = "post"
    /\ sq_posts' = sq_posts + 1
    /\ \E r \in SqResponses : sq_response' = Some(r)
    /\ sq_pc' = "respond"
    /\ UNCHANGED << sq_operation, sq_log >>

SqFinish(outcome, error) ==
    /\ sq_log' = Append(sq_log, [operation |-> sq_operation,
                                 posts |-> sq_posts,
                                 response |-> Val(sq_response),
                                 outcome |-> outcome,
                                 error |-> error])
    /\ sq_pc' = "ready"
    /\ UNCHANGED << sq_operation, sq_posts, sq_response >>

\* status 200 and no "errors" in the JSON: return thejson
SqReturn ==
    /\ SqFrame
    /\ sq_pc = "respond"
    /\ Val(sq_response).status_code = 200
    /\ ~Val(sq_response).errors
    /\ SqFinish("returned", None)

\* status 200 and "errors" in the JSON: raise Exception(f"Error: {errors}")
SqRaiseErrors ==
    /\ SqFrame
    /\ sq_pc = "respond"
    /\ Val(sq_response).status_code = 200
    /\ Val(sq_response).errors
    /\ SqFinish("raised", Some([cls |-> "Exception", msg |-> "Error: errors",
                                status_code |-> None, text |-> None,
                                errors |-> Some("errors")]))

\* any other status: raise Exception(f"Error: {status_code} - {text}")
SqRaiseStatus ==
    /\ SqFrame
    /\ sq_pc = "respond"
    /\ Val(sq_response).status_code # 200
    /\ SqFinish("raised", Some([cls |-> "Exception",
                                msg |-> "Error: status_code - text",
                                status_code |-> Some(Val(sq_response).status_code),
                                text |-> Some(Val(sq_response).text),
                                errors |-> None]))

SqNext ==
    \/ SqCall
    \/ SqPost
    \/ SqReturn
    \/ SqRaiseErrors
    \/ SqRaiseStatus

\* send_graphql_query when another component is being observed
SqIdle ==
    /\ sq_pc = "idle"
    /\ sq_operation = ""
    /\ sq_posts = 0
    /\ sq_response = None
    /\ sq_log = << >>

\* ------------------------------------------------------------------------
\* TokenCache used by several processes on the same cache path
\*
\* Every process has a TokenCache object of its own and calls get_token on
\* it once; the statements of get_token, invalidate_token and
\* _get_token_from_api that touch the file are steps of their own, and the
\* steps of the processes interleave.  The file system is a directory entry
\* (rc_path) and the files it has held (rc_inodes): a file that is removed
\* while a process holds it open stays readable and writable through that
\* handle.  A token is a positive number; the empty string is Empty.

Procs == { "p1", "p2", "p3" }
Empty == 0
\* time.time() while the processes run
RcNow == 25 * Hour

\* line 48, line 72: os.path.exists(self.token_file)
RcExistsBug(path) == TRUE
RcExists(path) == path # None

\* a token file written by an earlier run, fresh or stale, or none
RcInit ==
    /\ rc_pc = [p \in Procs |-> "exists"]
    /\ rc_token = [p \in Procs |-> None]
    /\ rc_fd = [p \in Procs |-> None]
    /\ rc_result = [p \in Procs |-> None]
    /\ rc_error = [p \in Procs |-> ""]
    /\ rc_lost = [p \in Procs |-> FALSE]
    /\ rc_torn = [p \in Procs |-> FALSE]
    /\ rc_issued = 1
    /\ \/ rc_path = None /\ rc_inodes = << >>
       \/ /\ rc_path = Some(1)
          /\ \E mtime \in { 0, RcNow - Hour } :
               rc_inodes = << [content |-> 1, mtime |-> mtime] >>

RcRaise(p, error) ==
    /\ rc_pc' = [rc_pc EXCEPT ![p] = "raised"]
    /\ rc_error' = [rc_error EXCEPT ![p] = error]

RcReturn(p, token) ==
    /\ rc_pc' = [rc_pc EXCEPT ![p] = "returned"]
    /\ rc_result' = [rc_result EXCEPT ![p] = token]

\* lines 47-48: self.token is None, then os.path.exists
RcCheckExists ==
    /\ RcFrame
    /\ \E p \in Procs :
         /\ rc_pc[p] = "exists"
         /\ rc_pc' = [rc_pc EXCEPT ![p] =
                IF RcExists(rc_path) THEN "getmtime" ELSE "api"]
         /\ rc_lost' = [rc_lost EXCEPT ![p] = FALSE]
    /\ UNCHANGED << rc_token, rc_fd, rc_result, rc_error, rc_torn, rc_issued,
                    rc_path, rc_inodes >>

\* line 50: os.path.getmtime and the comparison
RcGetMtime ==
    /\ RcFrame
    /\ \E p \in Procs :
         /\ rc_pc[p] = "getmtime"
         /\ IF rc_path = None
              THEN RcRaise(p, "FileNotFoundError")
              ELSE /\ rc_pc' = [rc_pc EXCEPT ![p] =
                         IF TcIsStale(rc_inodes[Val(rc_path)].mtime, RcNow)
                           THEN "inv_exists" ELSE "open_r"]
                   /\ UNCHANGED rc_error
    /\ UNCHANGED << rc_token, rc_fd, rc_result, rc_lost, rc_torn, rc_issued,
                    rc_path, rc_inodes >>

\* lines 71-72: invalidate_token up to its os.path.exists
RcInvalidateExists ==
    /\ RcFrame
    /\ \E p \in Procs :
         /\ rc_pc[p] = "inv_exists"
         /\ rc_pc' = [rc_pc EXCEPT ![p] =
                IF RcExists(rc_path) THEN "remove" ELSE "api"]
         /\ rc_lost' = [rc_lost EXCEPT ![p] = FALSE]
    /\ UNCHANGED << rc_token, rc_fd, rc_result, rc_error, rc_torn, rc_issued,
                    rc_path, rc_inodes >>

\* the steps a process takes trusting an os.path.exists that said yes
RcTrusting == { "getmtime", "open_r", "remove" }

\* line 73: os.remove
RcRemove ==
    /\ RcFrame
    /\ \E p \in Procs :
         /\ rc_pc[p] = "remove"
         /\ IF rc_path = None
              THEN /\ RcRaise(p, "FileNotFoundError")
                   /\ UNCHANGED << rc_path, rc_lost >>
              ELSE /\ rc_path' = None
                   /\ rc_pc' = [rc_pc EXCEPT ![p] = "api"]
                   /\ rc_lost' = [q \in Procs |->
                          IF q # p /\ rc_pc[q] \in RcTrusting
                            THEN TRUE ELSE rc_lost[q]]
                   /\ UNCHANGED rc_error
    /\ UNCHANGED << rc_token, rc_fd, rc_result, rc_torn, rc_issued, rc_inodes >>

\* line 39: get_auth_token returns a new token or raises
RcApi ==
    /\ RcFrame
    /\ \E p \in Procs :
         /\ rc_pc[p] = "api"
         /\ \/ /\ rc_issued' = rc_issued + 1
               /\ rc_token' = [rc_token EXCEPT ![p] = Some(rc_issued')]
               /\ rc_pc' = [rc_pc EXCEPT ![p] = "open_w"]
               /\ UNCHANGED rc_error
            \/ /\ RcRaise(p, "Exception")
               /\ UNCHANGED << rc_issued, rc_token >>
    /\ UNCHANGED << rc_fd, rc_result, rc_lost, rc_torn, rc_path, rc_inodes >>

\* line 42: open(self.token_file, 'w') truncates the file or creates it
RcOpenWrite ==
    /\ RcFrame
    /\ \E p \in Procs :
         /\ rc_pc[p] = "open_w"
         /\ IF rc_path = None
              THEN /\ rc_inodes' = Append(rc_inodes,
                                     [content |-> Empty, mtime |-> RcNow])
                   /\ rc_path' = Some(Len(rc_inodes'))
              ELSE /\ rc_inodes' = [rc_inodes EXCEPT ![Val(rc_path)] =
                                     [content |-> Empty, mtime |-> RcNow]]
                   /\ UNCHANGED rc_path
         /\ rc_fd' = [rc_fd EXCEPT ![p] = rc_path']
         /\ rc_pc' = [rc_pc EXCEPT ![p] = "write"]
    /\ UNCHANGED << rc_token, rc_result, rc_error, rc_lost, rc_torn, rc_issued >>

\* line 43 and the end of the with block: the token reaches the file the
\* handle is open on; lines 55, 65: return self.token
RcWrite ==
    /\ RcFrame
    /\ \E p \in Procs :
         /\ rc_pc[p] = "write"
         /\ rc_inodes' = [rc_inodes EXCEPT ![Val(rc_fd[p])] =
                            [content |-> Val(rc_token[p]), mtime |-> RcNow]]
         /\ rc_fd' = [rc_fd EXCEPT ![p] = None]
         /\ RcReturn(p, rc_token[p])
    /\ UNCHANGED << rc_token, rc_error, rc_lost, rc_torn, rc_issued, rc_path >>

\* line 58: open(self.token_file, 'r')
RcOpenRead ==
    /\ RcFrame
    /\ \E p \in Procs :
         /\ rc_pc[p] = "open_r"
         /\ IF rc_path = None
              THEN /\ RcRaise(p, "FileNotFoundError")
                   /\ UNCHANGED rc_fd
              ELSE /\ rc_fd' = [rc_fd EXCEPT ![p] = rc_path]
                   /\ rc_pc' = [rc_pc EXCEPT ![p] = "read"]
                   /\ UNCHANGED rc_error
    /\ UNCHANGED << rc_token, rc_result, rc_lost, rc_torn, rc_issued, rc_path,
                    rc_inodes >>

\* lines 59-61: self.token = f.read(); return self.token
RcRead ==
    /\ RcFrame
    /\ \E p \in Procs :
         /\ rc_pc[p] = "read"
         /\ rc_token' = [rc_token EXCEPT ![p] =
                           Some(rc_inodes[Val(rc_fd[p])].content)]
         /\ rc_torn' = [rc_torn EXCEPT ![p] =
                \E q \in Procs \ { p } :
                    rc_pc[q] = "write" /\ rc_fd[q] = rc_fd[p]]
         /\ rc_fd' = [rc_fd EXCEPT ![p] = None]
         /\ RcReturn(p, rc_token'[p])
    /\ UNCHANGED << rc_error, rc_lost, rc_issued, rc_path, rc_inodes >>

RcNext ==
    \/ RcCheckExists
    \/ RcGetMtime
    \/ RcInvalidateExists
    \/ RcRemove
    \/ RcApi
    \/ RcOpenWrite
    \/ RcWrite
    \/ RcOpenRead
    \/ RcRead

\* no processes sharing a cache path
RcIdle ==
    /\ rc_pc = << >>
    /\ rc_token = << >>
    /\ rc_fd = << >>
    /\ rc_result = << >>
    /\ rc_error = << >>
    /\ rc_lost = << >>
    /\ rc_torn = << >>
    /\ rc_issued = 0
    /\ rc_path = None
    /\ rc_inodes = << >>

\* ------------------------------------------------------------------------
\* upload_test_results_file and update_finding_statuses
\*
\* wr_args is [test_id, file_path] or [user_id, finding_ids, status,
\* justification, response]; every argument is an optional string.

WrFunctions == { "upload_test_results_file", "update_finding_statuses" }

\* an argument left out (None), given empty, or given
OptArgs(v) == { None, Some(""), Some(v) }

WrArgs(fn) ==
    IF fn = "upload_test_results_file"
      THEN [test_id : OptArgs("mock_test_id"),
            file_path : OptArgs("mock_file_path")]
      ELSE [user_id : OptArgs("mock_user_id"),
            finding_ids : OptArgs("mock_finding_id"),
            status : OptArgs("AFFECTED") \cup { Some("NOT_AFFECTED") },
            justification : { None, Some("COMPONENT_NOT_PRESENT") },
            response : { None, Some("WILL_NOT_FIX") }]

\* the `if not <param>: raise ValueError` checks, in the order of the source
WrRequiredBug(fn, a) ==
    IF fn = "upload_test_results_file"
      THEN IF ~StrTruthy(a.file_path)
             THEN Raised("ValueError", "File Path is required")
           ELSE IF ~StrTruthy(a.test_id)
             THEN Raised("ValueError", "Test Id is required")
           ELSE None
      ELSE IF ~StrTruthy(a.status)
             THEN Raised("ValueError", "Status is required")
           ELSE IF ~StrTruthy(a.finding_ids)
             THEN Raised("ValueError", "Finding Ids is required")
           ELSE IF ~StrTruthy(a.user_id)
             THEN Raised("ValueError", "User Id is required")
           ELSE None
WrRequired(fn, a) ==
    IF fn = "upload_test_results_file"
      THEN IF ~StrTruthy(a.test_id)
             THEN Raised("ValueError", "Test Id is required")
           ELSE IF ~StrTruthy(a.file_path)
             THEN Raised("ValueError", "File Path is required")
           ELSE None
      ELSE IF ~StrTruthy(a.user_id)
             THEN Raised("ValueError", "User Id is required")
           ELSE IF ~StrTruthy(a.finding_ids)
             THEN Raised("ValueError", "Finding Ids is required")
           ELSE IF ~StrTruthy(a.status)
             THEN Raised("ValueError", "Status is required")
           ELSE None

\* __create_UPDATE_FINDING_STATUSES_VARIABLES: what it raises, if anything
WrVariablesError(a) ==
    IF a.status = Some("AFFECTED") /\ a.justification # None
      THEN Raised("Exception", "justification pertains to status NOT AFFECTED")
    ELSE IF a.status = Some("NOT_AFFECTED") /\ a.response # None
      THEN Raised("Exception", "response pertains to status AFFECTED")
    ELSE None

\* everything that raises before the first network call
WrValidate(fn, a) ==
    IF WrRequired(fn, a) # None THEN WrRequired(fn, a)
    ELSE IF fn = "update_finding_statuses" THEN WrVariablesError(a)
    ELSE None

WrInit ==
    /\ wr_pc = "start"
    /\ wr_fn \in WrFunctions
    /\ wr_args \in WrArgs(wr_fn)
    /\ wr_url = None
    /\ wr_key = None
    /\ wr_error = None
    /\ wr_calls = << >>

WrFail(err) ==
    /\ wr_pc' = "failed"
    /\ wr_error' = err

\* one of the checks raises
WrValidateFail ==
    /\ WrFrame
    /\ wr_pc = "start"
    /\ WrValidate(wr_fn, wr_args) # None
    /\ WrFail(WrValidate(wr_fn, wr_args))
    /\ UNCHANGED << wr_fn, wr_args, wr_url, wr_key, wr_calls >>

\* update_finding_statuses: return send_graphql_query(...)
WrUpdate ==
    /\ WrFrame
    /\ wr_pc = "start"
    /\ wr_fn = "update_finding_statuses"
    /\ WrValidate(wr_fn, wr_args) = None
    /\ \/ \E f \in GraphqlFailures :
            /\ wr_calls' = Append(wr_calls,
                   [op |-> "updateFindingsStatuses",
                    userId |-> Val(wr_args.user_id),
                    ids |-> << Val(wr_args.finding_ids) >>,
                    status |-> Val(wr_args.status), reply |-> f])
            /\ WrFail(ExSendError(f))
       \/ /\ wr_calls' = Append(wr_calls,
                   [op |-> "updateFindingsStatuses",
                    userId |-> Val(wr_args.user_id),
                    ids |-> << Val(wr_args.finding_ids) >>,
                    status |-> Val(wr_args.status), reply |-> "ok"])
          /\ wr_pc' = "done"
          /\ UNCHANGED wr_error
    /\ UNCHANGED << wr_fn, wr_args, wr_url, wr_key >>

\* upload_test_results_file: generateSinglePartUploadUrl
WrUploadUrl ==
    /\ WrFrame
    /\ wr_pc = "start"
    /\ wr_fn = "upload_test_results_file"
    /\ WrValidate(wr_fn, wr_args) = None
    /\ \/ \E f \in GraphqlFailures :
            /\ wr_calls' = Append(wr_calls,
                   [op |-> "generateSinglePartUploadUrl",
                    testId |-> Val(wr_args.test_id), reply |-> f])
            /\ WrFail(ExSendError(f))
            /\ UNCHANGED << wr_url, wr_key >>
       \/ \E u \in UploadUrls, k \in CompleteKeys :
            /\ wr_calls' = Append(wr_calls,
                   [op |-> "generateSinglePartUploadUrl",
                    testId |-> Val(wr_args.test_id), reply |-> "ok",
                    returned |-> [uploadUrl |-> u, key |-> k]])
            /\ wr_url' = Some(u)
            /\ wr_key' = Some(k)
            /\ wr_pc' = "put"
            /\ UNCHANGED wr_error
    /\ UNCHANGED << wr_fn, wr_args >>

\* upload_test_results_file: upload_file_to_url(upload_url, file_path)
WrPutFile ==
    /\ WrFrame
    /\ wr_pc = "put"
    /\ \/ /\ wr_calls' = Append(wr_calls,
                   [op |-> "put", url |-> Val(wr_url),
                    file_path |-> Val(wr_args.file_path),
                    reply |-> "http_error"])
          /\ WrFail(ExSendError("http_error"))
       \/ /\ wr_calls' = Append(wr_calls,
                   [op |-> "put", url |-> Val(wr_url),
                    file_path |-> Val(wr_args.file_path), reply |-> "ok"])
          /\ wr_pc' = "launch"
          /\ UNCHANGED wr_error
    /\ UNCHANGED << wr_fn, wr_args, wr_url, wr_key >>

\* upload_test_results_file: launchTestResultProcessing
WrLaunch ==
    /\ WrFrame
    /\ wr_pc = "launch"
    /\ \/ \E f \in GraphqlFailures :
            /\ wr_calls' = Append(wr_calls,
                   [op |-> "launchTestResultProcessing",
                    testId |-> Val(wr_args.test_id), key |-> Val(wr_key),
                    reply |-> f])
            /\ WrFail(ExSendError(f))
       \/ /\ wr_calls' = Append(wr_calls,
                   [op |-> "launchTestResultProcessing",
                    testId |-> Val(wr_args.test_id), key |-> Val(wr_key),
                    reply |-> "ok"])
          /\ wr_pc' = "done"
          /\ UNCHANGED wr_error
    /\ UNCHANGED << wr_fn, wr_args, wr_url, wr_key >>

\* neither function in use
WrIdle ==
    /\ wr_pc = "idle"
    /\ wr_fn = ""
    /\ wr_args = << >>
    /\ wr_url = None
    /\ wr_key = None
    /\ wr_error = None
    /\ wr_calls = << >>

\* ------------------------------------------------------------------------
\* get_all_business_units, get_all_organizations, get_all_products,
\* get_all_users: each passes the 'variables' dict of its entry of queries.py,
\* one object for the life of the process, to get_all_paginated_results.

DEFAULT_PAGE_SIZE == 100

MaxListCalls == 2       \* calls of listing functions in one process
MaxRecords == 1         \* records in a collection of the server

ListFunctions ==
    { "get_all_business_units", "get_all_organizations", "get_all_products",
      "get_all_users" }

\* the field each function asks get_all_paginated_results for
ListField(fn) ==
    CASE fn = "get_all_business_units" -> "allGroups"
      [] fn = "get_all_organizations" -> "allOrganizations"
      [] fn = "get_all_products" -> "allProducts"
      [] fn = "get_all_users" -> "allUsers"

\* the "variables" of ALL_BUSINESS_UNITS, ALL_USERS, ALL_ORGANIZATIONS and
\* ALL_PRODUCTS as the module defines them
QueryVariables(fn) ==
    IF fn = "get_all_products"
      THEN [filter |-> << >>, after |-> None, first |-> Some(DEFAULT_PAGE_SIZE)]
      ELSE [after |-> None, first |-> Some(DEFAULT_PAGE_SIZE)]

\* The unchanged server: collection fn holds the records 1..n, the cursor of a
\* record is its number, and a request is answered with the records after
\* variables.after, at most variables.first of them.
ServerPage(n, variables) ==
    LET after == IF variables.after = None THEN 0 ELSE Val(variables.after)
    IN  IF after >= n THEN << >>
        ELSE MkPage(after, Min(n - after, Val(variables.first)), "cursor")

\* a request is answered with the page, or fails in send_graphql_query
LsReplies(n, variables) ==
    { [kind |-> "http_error"], [kind |-> "page", records |-> ServerPage(n, variables)] }

LsInit ==
    /\ ls_pc = "ready"
    /\ ls_fn = ""
    /\ ls_variables = [fn \in ListFunctions |-> QueryVariables(fn)]
    /\ ls_server \in [ListFunctions -> 0..MaxRecords]
    /\ ls_results = << >>
    /\ ls_cursor = None
    /\ ls_calls = << >>

\* the running call, in the history
LsLog(requests, outcome, results) ==
    ls_calls' = [ls_calls EXCEPT ![Len(ls_calls)] =
                   [fn |-> ls_fn, requests |-> requests, outcome |-> outcome,
                    results |-> results]]

LsRequests == Last(ls_calls).requests

\* get_all_*(token, organization_context): the call enters
\* get_all_paginated_results with the module's dict, whose checks of field,
\* limit (None) and variables["first"] pass
LsCall ==
    /\ LsFrame
    /\ ls_pc = "ready"
    /\ Len(ls_calls) < MaxListCalls
    /\ \E fn \in ListFunctions :
        /\ PgValidate(ListField(fn), None, ls_variables[fn]) = ""
        /\ ls_fn' = fn
        /\ ls_calls' = Append(ls_calls, [fn |-> fn, requests |-> << >>,
                                         outcome |-> "running", results |-> << >>])
    /\ ls_pc' = "first"
    /\ ls_results' = << >>
    /\ ls_cursor' = None
    /\ UNCHANGED << ls_variables, ls_server >>

\* lines 1306-1324: the first request and what follows it up to the loop
LsFirstPage ==
    /\ LsFrame
    /\ ls_pc = "first"
    /\ \E resp \in LsReplies(ls_server[ls_fn], ls_variables[ls_fn]) :
        LET requests == Append(LsRequests, ls_variables[ls_fn]) IN
        IF SendRaises(resp)
          THEN /\ LsLog(requests, "raised", << >>)
               /\ ls_pc' = "ready"
               /\ UNCHANGED << ls_results, ls_cursor >>
        ELSE IF Len(resp.records) > 0
          THEN /\ LsLog(requests, "running", << >>)
               /\ ls_results' = PgExtend(<< >>, resp.records)
               /\ ls_cursor' = Last(resp.records).cursor
               /\ ls_pc' = "loop"
          ELSE /\ LsLog(requests, "returned", << >>)
               /\ ls_pc' = "ready"
               /\ UNCHANGED << ls_results, ls_cursor >>
    /\ UNCHANGED << ls_fn, ls_variables, ls_server >>

\* lines 1330-1340: variables['after'] = cursor, and one more page
LsNextPage ==
    /\ LsFrame
    /\ ls_pc = "loop"
    /\ PgContinue(ls_cursor)
    /\ ls_variables' = [ls_variables EXCEPT ![ls_fn].after = ls_cursor]
    /\ \E resp \in LsReplies(ls_server[ls_fn], ls_variables'[ls_fn]) :
        LET requests == Append(LsRequests, ls_variables'[ls_fn]) IN
        IF SendRaises(resp)
          THEN /\ LsLog(requests, "raised", << >>)
               /\ ls_pc' = "ready"
               /\ UNCHANGED << ls_results, ls_cursor >>
          ELSE /\ LsLog(requests, "running", << >>)
               /\ ls_results' = PgExtend(ls_results, resp.records)
               /\ ls_cursor' = IF Len(resp.records) = 0 THEN None
                               ELSE Last(resp.records).cursor
               /\ UNCHANGED ls_pc
    /\ UNCHANGED << ls_fn, ls_server >>

\* lines 1326, 1342: the loop ends and the results are returned
LsReturn ==
    /\ LsFrame
    /\ ls_pc = "loop"
    /\ ~PgContinue(ls_cursor)
    /\ LsLog(LsRequests, "returned", ls_results)
    /\ ls_pc' = "ready"
    /\ UNCHANGED << ls_fn, ls_variables, ls_server, ls_results, ls_cursor >>

LsNext == LsCall \/ LsFirstPage \/ LsNextPage \/ LsReturn

\* no listing function is called
LsIdle ==
    /\ ls_pc = "idle"
    /\ ls_fn = ""
    /\ ls_variables = << >>
    /\ ls_server = << >>
    /\ ls_results = << >>
    /\ ls_cursor = None
    /\ ls_calls = << >>

\* ------------------------------------------------------------------------
\* TokenCache objects of one organization context and the client ids their
\* get_token is called with

MaxTokenCalls == 3      \* calls of get_token in one run

Caches == { "cache_1", "cache_2" }
ClientIds == { "client_a", "client_b" }

\* the token get_auth_token(client_id, client_secret) answers with: it belongs
\* to that client; serial tells the tokens of one client apart
ApiToken(client_id, serial) == [client_id |-> client_id, serial |-> serial]

\* __init__: self.token_path, '.tokencache/<org>' or, when a client_id was
\* given, '.tokencache/<org>-<client_id>'
TokenPath(client_id) ==
    IF StrTruthy(client_id) THEN << "org", Val(client_id) >> ELSE << "org" >>

TokenPaths == { TokenPath(id) : id \in OptArgs("client_a") \cup OptArgs("client_b") }

\* the state after the TokenCache objects were constructed, each with or
\* without a client_id; no token file is there yet
CiInit ==
    /\ ci_client_id \in [Caches -> { None } \cup { Some(id) : id \in ClientIds }]
    /\ ci_token = [c \in Caches |-> None]
    /\ ci_files = [p \in TokenPaths |-> None]
    /\ ci_issued = 0
    /\ ci_calls = << >>

CiFile(c) == TokenPath(ci_client_id[c])

\* invalidate_token on the object c, as an update of the files
CiRemoved(c) == [ci_files EXCEPT ![CiFile(c)] = None]

\* get_token(client_id, client_secret) on the object c.  stale: the token file
\* is more than 24 hours old; api_ok: get_auth_token answers with a token.
\* On a path that does not look at the file's age or does not call the API,
\* the input is fixed to one value.
CiGetToken ==
    /\ CiFrame
    /\ Len(ci_calls) < MaxTokenCalls
    /\ \E c \in Caches, client_id \in ClientIds, stale \in BOOLEAN,
          api_ok \in BOOLEAN :
        LET fresh == ApiToken(client_id, ci_issued + 1)
            Call(returned, fetched) ==
                [cache |-> c, client_id |-> client_id, returned |-> returned,
                 fetched |-> fetched]
            \* _get_token_from_api after the files became `files`
            FromApi(files) ==
                IF api_ok
                  THEN /\ ci_token' = [ci_token EXCEPT ![c] = Some(fresh)]
                       /\ ci_files' = [files EXCEPT ![CiFile(c)] = Some(fresh)]
                       /\ ci_issued' = ci_issued + 1
                       /\ ci_calls' = Append(ci_calls, Call(Some(fresh), TRUE))
                  ELSE /\ ci_token' = [ci_token EXCEPT ![c] = None]
                       /\ ci_files' = files
                       /\ UNCHANGED ci_issued
                       /\ ci_calls' = Append(ci_calls, Call(None, TRUE))
        IN  IF ci_token[c] # None
              THEN /\ ~stale /\ api_ok
                   /\ ci_calls' = Append(ci_calls, Call(ci_token[c], FALSE))
                   /\ UNCHANGED << ci_token, ci_files, ci_issued >>
            ELSE IF ci_files[CiFile(c)] = None
              THEN ~stale /\ FromApi(ci_files)
            ELSE IF stale
              THEN FromApi(CiRemoved(c))
              ELSE /\ api_ok
                   /\ ci_token' = [ci_token EXCEPT ![c] = ci_files[CiFile(c)]]
                   /\ ci_calls' = Append(ci_calls, Call(ci_files[CiFile(c)], FALSE))
                   /\ UNCHANGED << ci_files, ci_issued >>
    /\ UNCHANGED ci_client_id

\* invalidate_token on the object c
CiInvalidateToken ==
    /\ CiFrame
    /\ \E c \in Caches :
        /\ ci_token[c] # None \/ ci_files[CiFile(c)] # None
        /\ ci_token' = [ci_token EXCEPT ![c] = None]
        /\ ci_files' = CiRemoved(c)
    /\ UNCHANGED << ci_client_id, ci_issued, ci_calls >>

CiNext == CiGetToken \/ CiInvalidateToken

\* no TokenCache of this kind is in use
CiIdle ==
    /\ ci_client_id = << >>
    /\ ci_token = << >>
    /\ ci_files = << >>
    /\ ci_issued = 0
    /\ ci_calls = << >>

\* ------------------------------------------------------------------------
\* Specifications, one per component

PaginatorInit == PgInit /\ UpIdle /\ TcIdle /\ ExIdle /\ SqIdle /\ RcIdle /\ WrIdle /\ LsIdle /\ CiIdle
SpecPaginator == PaginatorInit /\ [][PgNext]_vars

UploadInit == UpInit /\ PgIdle /\ TcIdle /\ ExIdle /\ SqIdle /\ RcIdle /\ WrIdle /\ LsIdle /\ CiIdle
SpecUpload == UploadInit /\ [][UpNext]_vars

TokenCacheInit == TcInit /\ PgIdle /\ UpIdle /\ ExIdle /\ SqIdle /\ RcIdle /\ WrIdle /\ LsIdle /\ CiIdle
SpecTokenCache == TokenCacheInit /\ [][TcNext]_vars

ExportInit == ExInit /\ PgIdle /\ UpIdle /\ TcIdle /\ SqIdle /\ RcIdle /\ WrIdle /\ LsIdle /\ CiIdle
SpecExport == ExportInit /\ [][ExNext]_vars

SendInit == SqInit /\ PgIdle /\ UpIdle /\ TcIdle /\ ExIdle /\ RcIdle /\ WrIdle /\ LsIdle /\ CiIdle
SpecSend == SendInit /\ [][SqNext]_vars

TokenRaceInit == RcInit /\ PgIdle /\ UpIdle /\ TcIdle /\ ExIdle /\ SqIdle /\ WrIdle /\ LsIdle /\ CiIdle
SpecTokenRace == TokenRaceInit /\ [][RcNext]_vars

\* the three functions that check their required parameters first
RequiredParamsInit ==
    /\ \/ UpInit /\ WrIdle
       \/ WrInit /\ UpIdle
    /\ PgIdle /\ TcIdle /\ ExIdle /\ SqIdle /\ RcIdle /\ LsIdle /\ CiIdle
SpecRequiredParams ==
    RequiredParamsInit
    /\ [][UpValidateFail \/ UpStart \/ UpPartUrl \/ UpPut \/ UpComplete
           \/ UpLaunch \/ WrValidateFail \/ WrUpdate \/ WrUploadUrl
           \/ WrPutFile \/ WrLaunch]_vars


ListingInit == LsInit /\ PgIdle /\ UpIdle /\ TcIdle /\ ExIdle /\ SqIdle /\ RcIdle /\ WrIdle /\ CiIdle
SpecListing == ListingInit /\ [][LsNext]_vars


ClientTokensInit == CiInit /\ PgIdle /\ UpIdle /\ TcIdle /\ ExIdle /\ SqIdle /\ RcIdle /\ WrIdle /\ LsIdle
SpecClientTokens == ClientTokensInit /\ [][CiNext]_vars

\* ------------------------------------------------------------------------
\* Properties of get_all_paginated_results

PgValidationErrors ==
    { "Error: field is required", "Error: limit cannot be greater than 1000",
      "Error: limit cannot be less than 1", "Error: first is required",
      "Error: first cannot be less than 1" }

PgAllPages == \A i \in 1..Len(pg_pages) : pg_pages[i].kind = "page"

\* the records of a sequence of pages, in page order
RECURSIVE PgConcat(_)
PgConcat(pages) ==
    IF pages = << >> THEN << >>
    ELSE PgConcat(SubSeq(pages, 1, Len(pages) - 1)) \o Last(pages).records

PgNonEmpty(resp) == resp.kind = "page" /\ Len(resp.records) > 0
PgEmpty(resp) == resp.kind = "page" /\ Len(resp.records) = 0
\* the last record of the page carries a cursor to continue from
PgHasCursor(resp) ==
    /\ PgNonEmpty(resp)
    /\ "cursor" \in DOMAIN Last(resp.records)
    /\ Truthy(Last(resp.records).cursor)
PgNullCursor(resp) ==
    /\ PgNonEmpty(resp)
    /\ "cursor" \in DOMAIN Last(resp.records)
    /\ ~Truthy(Last(resp.records).cursor)
PgFull(resp) == resp.kind = "page" /\ Len(resp.records) = Val(pg_variables.first)
PgShort(resp) == resp.kind = "page" /\ Len(resp.records) < Val(pg_variables.first)

PgValidArgs == PgValidate(pg_field, pg_limit, pg_variables) = ""

\* P1..Pn-1 are non-empty pages to continue from, Pn is the last one received
PgEarlierPagesContinue ==
    \A i \in 1..(Len(pg_pages) - 1) : PgHasCursor(pg_pages[i])

\* C1 as the spec states it: called without limit, when the pages received are
\* P1..Pn with P1..Pn-1 non-empty and Pn empty or without a cursor, the call
\* returns the records of P1..Pn-1 concatenated and has issued exactly n
\* requests.
C1_Original ==
    ( /\ pg_pc = "done"
      /\ pg_limit = None
      /\ PgValidArgs
      /\ PgAllPages
      /\ Len(pg_pages) >= 1
      /\ PgEarlierPagesContinue
      /\ (PgEmpty(Last(pg_pages)) \/ ~PgHasCursor(Last(pg_pages))) )
    => ( /\ pg_results = PgConcat(SubSeq(pg_pages, 1, Len(pg_pages) - 1))
         /\ Len(pg_requests) = Len(pg_pages) )

\* C1 amended: called without limit, when the pages received are P1..Pn with
\* P1..Pn-1 non-empty and Pn empty or ending in a record whose cursor is null,
\* the call asks for no further page and returns the records of all of
\* P1..Pn (those of a non-empty Pn included) concatenated in server page
\* order, having issued exactly n requests.
C1_Pagination ==
    ( /\ pg_limit = None
      /\ PgValidArgs
      /\ PgAllPages
      /\ Len(pg_pages) >= 1
      /\ PgEarlierPagesContinue
      /\ (PgEmpty(Last(pg_pages)) \/ PgNullCursor(Last(pg_pages))) )
    => ( /\ pg_pc \in { "loop", "done" }
         /\ pg_pc = "loop" => ~ENABLED PgNextPage
         /\ pg_results = PgConcat(pg_pages)
         /\ \A i \in 1..Len(pg_results) : pg_results[i].id = i
         /\ Len(pg_requests) = Len(pg_pages) )

\* C1 witness: three pages were received, the last one non-empty and ending in
\* a null cursor, and the call returned all their records.
C1_Witness ==
    /\ pg_pc = "done"
    /\ pg_limit = None
    /\ Len(pg_pages) = 3
    /\ PgEarlierPagesContinue
    /\ PgNullCursor(Last(pg_pages))
    /\ Len(pg_results) >= 4
    /\ Len(pg_requests) = 3

\* C2 as the spec states it: a page with fewer than variables.first records,
\* or without a cursor, is the last page requested, so every page but the last
\* received is a full page to continue from.
C2_Original ==
    \A i \in 1..(Len(pg_pages) - 1) :
        pg_pages[i].kind = "page" =>
            ~PgShort(pg_pages[i]) /\ PgHasCursor(pg_pages[i])

\* C2 amended: the paginator stops requesting after an empty page or a page
\* whose last record has a null cursor (every page but the last received is
\* non-empty and ends in a cursor), and every request is sent with the cursor
\* of the page before it; the size of a page against variables.first plays
\* no part.
C2_StopsOnNoCursor ==
    /\ Len(pg_requests) = Len(pg_pages)
    /\ \A i \in 1..(Len(pg_pages) - 1) :
        /\ PgHasCursor(pg_pages[i])
        /\ pg_requests[i + 1].after = Last(pg_pages[i].records).cursor

\* C2 witness: a page shorter than variables.first was followed by another
\* request, and the call returned after an empty page.
C2_Witness ==
    /\ pg_pc = "done"
    /\ Len(pg_pages) = 3
    /\ PgShort(pg_pages[1]) /\ PgHasCursor(pg_pages[1])
    /\ PgFull(pg_pages[2])
    /\ PgEmpty(pg_pages[3])
    /\ Len(pg_requests) = 3

PgFirstOutOfRange ==
    pg_variables.first # None /\ Val(pg_variables.first) \notin 1..MAX_PAGE_SIZE

\* C3: a call with variables.first outside [1, 1000] (0 and 1001 among them)
\* raises a validation error and no request has been sent.
C3_PageSizeValidation ==
    (pg_pc # "start" /\ PgFirstOutOfRange)
    => ( /\ pg_pc = "failed"
         /\ pg_error \in PgValidationErrors
         /\ pg_requests = << >>
         /\ pg_pages = << >> )

\* C3 witness: first = 1001, all other arguments fine, was refused by the
\* check of first itself.
C3_Witness ==
    /\ pg_pc = "failed"
    /\ pg_variables.first = Some(MAX_PAGE_SIZE + 1)
    /\ pg_field # ""
    /\ pg_limit = None
    /\ pg_error = "Error: limit cannot be greater than 1000"
    /\ pg_requests = << >>

\* limit = k is a multiple of the page size and every page received so far is
\* a full page with more to come
PgFullPagesUnderLimit ==
    /\ PgValidArgs
    /\ Truthy(pg_limit)
    /\ Val(pg_limit) % Val(pg_variables.first) = 0
    /\ PgAllPages
    /\ \A i \in 1..Len(pg_pages) : PgFull(pg_pages[i]) /\ PgHasCursor(pg_pages[i])

\* C4: with limit = k a multiple of the page size and a server that keeps
\* returning full pages, the accumulator never exceeds k records, the call
\* does not fail, and the list it returns has exactly k records.
C4_LimitMultiple ==
    PgFullPagesUnderLimit
    => ( /\ pg_pc # "failed"
         /\ Len(pg_results) <= Val(pg_limit)
         /\ pg_pc = "done" => Len(pg_results) = Val(pg_limit)
         /\ (pg_pc = "loop" /\ Len(pg_results) = Val(pg_limit)) => ~ENABLED PgNextPage )

\* C4 witness: limit = 4 reached with two full pages of two records.
C4_Witness ==
    /\ pg_pc = "done"
    /\ PgFullPagesUnderLimit
    /\ pg_limit = Some(4)
    /\ pg_variables.first = Some(2)
    /\ Len(pg_pages) = 2
    /\ Len(pg_results) = 4

\* C5: the list returned holds at most limit records, whatever the page size
\* and the pages.
C5_LimitIsMaximum ==
    (pg_pc = "done" /\ Truthy(pg_limit)) => Len(pg_results) <= Val(pg_limit)

\* ------------------------------------------------------------------------
\* Properties of upload_file_for_binary_analysis

UpValueErrors ==
    { "ValueError: Test Id is required", "ValueError: File Path is required",
      "ValueError: Chunk size must be greater than MIN_CHUNK_SIZE bytes",
      "ValueError: Chunk size must be less than MAX_CHUNK_SIZE bytes" }

\* ceil(size / chunk_size): the number of chunks a file is split into
UpChunkCount == (up_file_size + up_args.chunk_size - 1) \div up_args.chunk_size

UpPutCalls == SelectSeq(up_calls, LAMBDA c : c.op = "put")
UpCompleteCalls == SelectSeq(up_calls, LAMBDA c : c.op = "complete")

\* C6: the partData of the completeMultipartUploadV2 call has one entry per
\* chunk of the file, entry i has PartNumber i and the ETag the PUT of chunk i
\* (the i-th PUT, of the bytes from offset (i - 1) * chunk_size) was answered
\* with.
C6_PartData ==
    \A c \in 1..Len(UpCompleteCalls) :
        LET partData == UpCompleteCalls[c].partData IN
        /\ Len(partData) = UpChunkCount
        /\ Len(UpPutCalls) = UpChunkCount
        /\ \A i \in 1..Len(partData) :
            /\ partData[i].PartNumber = i
            /\ UpPutCalls[i].reply = "ok"
            /\ UpPutCalls[i].chunk.offset = (i - 1) * up_args.chunk_size
            /\ partData[i].ETag = UpPutCalls[i].etag

\* C6 witness: a file of three chunks was completed, and its PUTs were
\* answered with different ETags.
C6_Witness ==
    /\ Len(UpCompleteCalls) = 1
    /\ UpChunkCount = 3
    /\ Len(UpCompleteCalls[1].partData) = 3
    /\ UpCompleteCalls[1].partData[1].ETag = "etag_b"
    /\ UpCompleteCalls[1].partData[2].ETag = "etag_a"
    /\ UpCompleteCalls[1].partData[3].ETag = "etag_b"

\* C7: a call with chunk_size < 5 MiB or chunk_size >= 2 GiB raises a
\* ValueError and no network call has been made.
C7_ChunkSizeValidation ==
    ( /\ up_pc \notin { "idle", "start" }
      /\ (up_args.chunk_size < MIN_CHUNK_SIZE \/ up_args.chunk_size >= TwoGiB) )
    => ( /\ up_pc = "failed"
         /\ up_error \in UpValueErrors
         /\ up_calls = << >> )

\* C7 witness: chunk_size = 2 GiB, all other arguments fine, was refused by the
\* check of the chunk size.
C7_Witness ==
    /\ up_pc = "failed"
    /\ up_args.test_id # ""
    /\ up_args.file_path # ""
    /\ up_args.chunk_size = TwoGiB
    /\ up_error = "ValueError: Chunk size must be less than MAX_CHUNK_SIZE bytes"
    /\ up_calls = << >>

\* C8: every chunk_size in [5 MiB, 2 GiB) passes the checks: with test_id and
\* file_path given, the call goes on to startMultipartUploadV2.
C8_AcceptedRange ==
    ( /\ up_pc \notin { "idle", "start" }
      /\ up_args.test_id # ""
      /\ up_args.file_path # ""
      /\ MIN_CHUNK_SIZE <= up_args.chunk_size
      /\ up_args.chunk_size < TwoGiB )
    => ( /\ Len(up_calls) >= 1
         /\ up_calls[1].op = "start" )

\* C16: a call answered with a status other than 200, be it a PUT of a chunk
\* or a GraphQL call, ends the upload at once with that error: it is the last
\* network call made (the chunk is not sent again, no later chunk is requested
\* or uploaded, no complete and no launch follow).
C16_FailsImmediately ==
    \A j \in 1..Len(up_calls) :
        up_calls[j].reply = "http_error"
        => /\ j = Len(up_calls)
           /\ up_pc = "failed"
           /\ up_error = "Error: status_code - text"

\* C16 witness: the PUT of the first chunk of a file of three chunks was
\* answered with an error status: the upload failed after three calls.
C16_Witness ==
    /\ UpChunkCount = 3
    /\ Len(up_calls) = 3
    /\ up_calls[3].op = "put"
    /\ up_calls[3].reply = "http_error"
    /\ up_pc = "failed"

\* the calls an upload of n chunks makes: call 1 is the start, calls 2i and
\* 2i + 1 are the part-URL request and the PUT of chunk i, then the complete
\* and the launch
UpCallOrder(n) ==
    /\ Len(up_calls) = 2 * n + 3
    /\ up_calls[1].op = "start"
    /\ up_calls[1].testId = up_args.test_id
    /\ \A i \in 1..n :
         /\ up_calls[2 * i].op = "part_url"
         /\ up_calls[2 * i].partNumber = i
         /\ up_calls[2 * i].uploadId = up_calls[1].returned.uploadId
         /\ up_calls[2 * i].uploadKey = up_calls[1].returned.key
         /\ up_calls[2 * i + 1].op = "put"
         /\ up_calls[2 * i + 1].url = up_calls[2 * i].returned
         /\ up_calls[2 * i + 1].chunk = UpChunks[i]
    /\ up_calls[2 * n + 2].op = "complete"
    /\ up_calls[2 * n + 2].uploadId = up_calls[1].returned.uploadId
    /\ up_calls[2 * n + 2].uploadKey = up_calls[1].returned.key
    /\ up_calls[2 * n + 3].op = "launch"
    /\ up_calls[2 * n + 3].variables =
         IF up_args.quick_scan
           THEN [key |-> up_calls[2 * n + 2].returned,
                 testId |-> up_args.test_id,
                 configurationOptions |-> << "QUICK_SCAN" >>]
           ELSE [key |-> up_calls[2 * n + 2].returned,
                 testId |-> up_args.test_id]

\* C17: a successful upload of N chunks has made its calls in this order: one
\* start; for i = 1..N one part-URL request with partNumber i and the
\* uploadId and uploadKey of the session, then one PUT of chunk i to the URL
\* returned; one complete; one launch carrying the key the complete returned
\* and the test id, with configurationOptions ['QUICK_SCAN'] exactly when
\* quick_scan is set.  No upload completes twice or requests a part URL after
\* its complete.
C17_CallOrder ==
    /\ up_pc = "done" => UpCallOrder(UpChunkCount)
    /\ Len(UpCompleteCalls) <= 1
    /\ \A i, j \in 1..Len(up_calls) :
         (up_calls[i].op = "complete" /\ i < j)
         => up_calls[j].op \notin { "part_url", "put", "start" }

\* C17 witness: a quick scan of a file of two chunks succeeded; the two part
\* URLs differ and the launch carries the key of the complete.
C17_Witness ==
    /\ up_pc = "done"
    /\ UpChunkCount = 2
    /\ up_args.quick_scan
    /\ Len(up_calls) = 7
    /\ up_calls[2].returned # up_calls[4].returned
    /\ up_calls[5].url = up_calls[4].returned
    /\ up_calls[7].variables.key = up_calls[6].returned
    /\ up_calls[7].variables.configurationOptions = << "QUICK_SCAN" >>

\* ------------------------------------------------------------------------
\* Properties of TokenCache

\* the last get_token call was made by an object holding no token, with a
\* token file on disk
TcCalledOnFile ==
    /\ tc_last # None
    /\ Val(tc_last).pre_token = None
    /\ Val(tc_last).pre_file # None

\* age of the file's mtime at the last get_token call
TcFileAge == Val(tc_last).time - Val(Val(tc_last).pre_file).mtime

\* the last call returned the content of the file without calling the API
TcServedFromFile ==
    /\ Val(tc_last).outcome = "returned"
    /\ Val(tc_last).result = Some(Val(Val(tc_last).pre_file).content)
    /\ Val(tc_last).api_calls = 0
    /\ ~Val(tc_last).removed
    /\ Val(tc_last).wrote = None

\* the last call deleted the file and called the API exactly once; when the
\* API answered, the new token was written to the file and returned
TcRefreshed ==
    /\ Val(tc_last).removed
    /\ Val(tc_last).api_calls = 1
    /\ Val(tc_last).outcome = "returned" =>
        /\ Val(tc_last).result # None
        /\ Val(tc_last).wrote = Val(tc_last).result
        /\ Val(Val(tc_last).result) # Val(Val(tc_last).pre_file).content
        /\ tc_issued[Val(Val(tc_last).result)] = Val(tc_last).time

\* C9 as the spec states it: with a token file on disk, get_token returns the
\* cached value with no API call when the file's age is < 24h, and deletes the
\* file, calls the API once, writes and returns the new token when the age is
\* >= 24h.
C9_Original ==
    TcCalledOnFile =>
        /\ TcFileAge < TOKEN_MAX_AGE => TcServedFromFile
        /\ TcFileAge >= TOKEN_MAX_AGE => TcRefreshed

\* C9 amended: called on an object that holds no token in memory, with a
\* token file on disk, get_token returns the content of the file with no API
\* call when the file's age is <= 24h, and deletes the file and calls the API
\* exactly once (writing and returning the new token when the API answers)
\* when the age is > 24h.
C9_Freshness ==
    TcCalledOnFile =>
        /\ TcFileAge <= TOKEN_MAX_AGE => TcServedFromFile
        /\ TcFileAge > TOKEN_MAX_AGE => TcRefreshed

\* C9 witness: a file 25 hours old was deleted and replaced by a token fetched
\* with one API call.
C9_Witness ==
    /\ TcCalledOnFile
    /\ TcFileAge = 25 * Hour
    /\ TcRefreshed
    /\ Val(tc_last).outcome = "returned"
    /\ tc_file = Some([content |-> Val(Val(tc_last).result), mtime |-> Val(tc_last).time])

\* C10: every token get_token returns was fetched from the API less than 24
\* hours before the call.
C10_NeverOlderThanADay ==
    (tc_last # None /\ Val(tc_last).outcome = "returned")
    => Val(tc_last).time - tc_issued[Val(Val(tc_last).result)] < TOKEN_MAX_AGE

\* C18: right after invalidate_token, whatever the state it was called in, the
\* object holds no token and the token file does not exist; the get_token
\* call that follows fetches from the API exactly once and, when the API
\* answers, writes the new token to the file and returns it.
C18_Invalidate ==
    /\ tc_op = "invalidate_token" => tc_token = None /\ tc_file = None
    /\ (tc_last # None /\ Val(tc_last).pre_op = "invalidate_token")
       => /\ Val(tc_last).pre_token = None
          /\ Val(tc_last).pre_file = None
          /\ Val(tc_last).api_calls = 1
          /\ ~Val(tc_last).removed
          /\ Val(tc_last).outcome = "returned"
             => /\ Val(tc_last).wrote # None
                /\ Val(tc_last).result = Val(tc_last).wrote
                /\ tc_issued[Val(Val(tc_last).result)] = Val(tc_last).time
                /\ tc_op = "get_token"
                   => /\ tc_token = Val(tc_last).result
                      /\ tc_file = Some([content |-> Val(Val(tc_last).result),
                                         mtime |-> Val(tc_last).time])

\* C18 witness: a first token was fetched and written, invalidate_token was
\* called, and the get_token after it fetched, wrote and returned a second one.
C18_Witness ==
    /\ tc_op = "get_token"
    /\ tc_last # None
    /\ Val(tc_last).pre_op = "invalidate_token"
    /\ Val(tc_last).outcome = "returned"
    /\ Len(tc_issued) = 2
    /\ Val(tc_last).result = Some(2)
    /\ tc_file # None
    /\ Val(tc_file).content = 2

\* ------------------------------------------------------------------------
\* Properties of TokenCache shared by several processes

RcDone == \A p \in Procs : rc_pc[p] \in { "returned", "raised" }

\* C19: nothing keeps the processes apart, and what goes wrong goes wrong by
\* interleaving: a get_token call fails with FileNotFoundError only when
\* another process removed the file after the call saw it exist (before its
\* getmtime, its open or its own remove), and it returns the empty string
\* only when it read the file while another process had it open for writing,
\* truncated and not yet written.
C19_RacesByInterleaving ==
    \A p \in Procs :
        /\ rc_error[p] = "FileNotFoundError" => rc_lost[p]
        /\ rc_result[p] = Some(Empty) => rc_torn[p]

\* C19 witness: of three processes started on a stale file, one failed
\* because the file was removed under it, one returned the empty string, and
\* the one that rewrote the file returned the new token.
C19_Witness ==
    /\ RcDone
    /\ \E p, q, r \in Procs :
         /\ rc_error[p] = "FileNotFoundError"
         /\ rc_lost[p]
         /\ rc_result[q] = Some(Empty)
         /\ rc_torn[q]
         /\ rc_result[r] # None
         /\ Val(rc_result[r]) > 1
         /\ rc_path # None
         /\ rc_inodes[Val(rc_path)].content = Val(rc_result[r])

\* ------------------------------------------------------------------------
\* Properties of the export functions

ExSleeps == SelectSeq(ex_calls, LAMBDA c : c.op = "sleep")
ExGets == SelectSeq(ex_calls, LAMBDA c : c.op = "get")

\* the poller returned: the URL generator handed a URL to its caller
ExReturned == ex_url # None

\* the status queries were answered with non-completed statuses and then, on
\* the last one, with COMPLETED
ExPendingThenCompleted ==
    /\ ExStatusCalls # << >>
    /\ \A i \in 1..Len(ExStatusCalls) :
         /\ ExStatusCalls[i].reply = "ok"
         /\ ExStatusCalls[i].status = "COMPLETED" <=> i = Len(ExStatusCalls)

\* C11 as the spec states it: a poller whose status queries are answered with
\* a non-completed status k times and then with COMPLETED and link X has
\* slept exactly k times when it returns X.
C11_Original ==
    (ExReturned /\ ExPendingThenCompleted)
    => /\ Len(ExSleeps) = Len(ExStatusCalls) - 1
       /\ ex_url = Last(ExStatusCalls).downloadLink

\* C11 amended: a poller whose status queries are answered with a
\* non-completed status k times and then with COMPLETED and link X has slept
\* exactly k + 1 times when it returns X: once before every status query, the
\* first one included, ten seconds each.
C11_SleepBeforeEveryQuery ==
    (ExReturned /\ ExPendingThenCompleted)
    => /\ Len(ExSleeps) = Len(ExStatusCalls)
       /\ \A i \in 1..Len(ex_calls) :
            ex_calls[i].op = "status" => i > 1 /\ ex_calls[i - 1].op = "sleep"
       /\ ex_total_time = SLEEP_TIME * Len(ExStatusCalls)
       /\ ex_url = Last(ExStatusCalls).downloadLink

\* C11 witness: RUNNING, RUNNING, then COMPLETED with url_x: three sleeps, and
\* url_x returned.
C11_Witness ==
    /\ ExReturned
    /\ Len(ExStatusCalls) = 3
    /\ ExPendingThenCompleted
    /\ ExStatusCalls[1].status = "RUNNING"
    /\ ExStatusCalls[2].status = "RUNNING"
    /\ ExStatusCalls[3].downloadLink = Some("url_x")
    /\ ex_url = Some("url_x")
    /\ Len(ExSleeps) = 3

\* C12: polling ends with a URL only on a COMPLETED reply, and the URL is that
\* reply's downloadLink; after a reply with any other status (FAILED too) the
\* poller has neither returned nor raised: it goes on to the next sleep and
\* status query.
C12_EndsOnlyOnCompleted ==
    /\ ExReturned =>
         /\ Last(ExStatusCalls).reply = "ok"
         /\ Last(ExStatusCalls).status = "COMPLETED"
         /\ ex_url = Last(ExStatusCalls).downloadLink
    /\ \A i \in 1..Len(ex_calls) :
         (/\ ex_calls[i].op = "status"
          /\ ex_calls[i].reply = "ok"
          /\ ex_calls[i].status # "COMPLETED")
         => IF i = Len(ex_calls)
              THEN ex_pc = "sleep" /\ ~ExReturned /\ ex_error = None
              ELSE ex_calls[i + 1].op = "sleep"

\* C12 witness: a FAILED reply that carried a link was followed by another
\* status query, and the URL returned is the link of the later COMPLETED reply.
C12_Witness ==
    /\ ExReturned
    /\ Len(ExStatusCalls) = 2
    /\ ExStatusCalls[1].reply = "ok"
    /\ ExStatusCalls[1].status = "FAILED"
    /\ ExStatusCalls[1].downloadLink = Some("url_y")
    /\ ExStatusCalls[2].status = "COMPLETED"
    /\ ex_url = Some("url_x")

ExLaunches == SelectSeq(ex_calls, LAMBDA c : c.op = "launch")

SqGraphqlFailure(c) == c.response.status_code = 200 /\ c.response.errors
\* the call failed on the transport: a status other than 200
SqStatusFailure(c) == c.response.status_code # 200
SqServerError(c) == c.response.status_code >= 500

SqCalls == { sq_log[i] : i \in 1..Len(sq_log) }

\* C13: a mutation answered with a GraphQL-level error or an HTTP 5xx has made
\* exactly one network call and has failed with a breakout (non-retryable)
\* error.
C13_MutationNeverResent ==
    \A c \in SqCalls :
        (c.operation = "mutation" /\ (SqGraphqlFailure(c) \/ SqServerError(c)))
        => /\ c.posts = 1
           /\ c.outcome = "raised"
           /\ Val(c.error).cls = "BreakoutException"

\* C14: a non-mutation query answered with HTTP 5xx on every attempt has been
\* sent more than once and has raised tenacity.RetryError, whose last attempt
\* carries 'Error: 500 - <text>'.
C14_QueryRetried ==
    \A c \in SqCalls :
        (c.operation = "query" /\ SqServerError(c))
        => /\ c.posts > 1
           /\ c.outcome = "raised"
           /\ Val(c.error).cls = "RetryError"
           /\ Val(c.error).status_code = Some(c.response.status_code)
           /\ Val(c.error).text = Some(c.response.text)

\* C15: a non-200 status fails with an error that carries the status code and
\* the raw text, a 200 whose body has "errors" fails with an error of another
\* kind that carries the errors payload: the kinds of the two errors differ.
C15_TwoFailureKinds ==
    \A c, d \in SqCalls :
        (SqStatusFailure(c) /\ SqGraphqlFailure(d))
        => /\ c.outcome = "raised" /\ d.outcome = "raised"
           /\ Val(c.error).status_code = Some(c.response.status_code)
           /\ Val(c.error).text = Some(c.response.text)
           /\ Val(d.error).errors # None
           /\ Val(c.error).cls # Val(d.error).cls

\* ------------------------------------------------------------------------
\* Properties of the required-parameter checks

\* the parameters each function requires, in the order of its signature
RequiredParams(fn) ==
    IF fn = "update_finding_statuses"
      THEN << "user_id", "finding_ids", "status" >>
      ELSE << "test_id", "file_path" >>

\* '<Param Name> is required': the name with spaces for underscores, in title
\* case
RequiredMessage(param) ==
    CASE param = "test_id" -> "Test Id is required"
      [] param = "file_path" -> "File Path is required"
      [] param = "user_id" -> "User Id is required"
      [] param = "finding_ids" -> "Finding Ids is required"
      [] param = "status" -> "Status is required"

\* the first of the required parameters that is missing or empty, 0 if none
FirstMissing(params, missing(_)) ==
    IF \E i \in 1..Len(params) : missing(params[i])
      THEN CHOOSE i \in 1..Len(params) :
               /\ missing(params[i])
               /\ \A j \in 1..(i - 1) : ~missing(params[j])
      ELSE 0

UpMissing(param) == up_args[param] = ""
WrMissing(param) == wr_args[param] \in { None, Some("") }

UpFirstMissing ==
    FirstMissing(RequiredParams("upload_file_for_binary_analysis"), UpMissing)
WrFirstMissing == FirstMissing(RequiredParams(wr_fn), WrMissing)

\* C21: a call of upload_file_for_binary_analysis, upload_test_results_file or
\* update_finding_statuses with a required parameter missing or empty has
\* raised ValueError('<Param Name> is required') for the first such parameter
\* of its signature, and has made no network call.
C21_RequiredParams ==
    /\ (up_pc \notin { "idle", "start" } /\ UpFirstMissing # 0)
       => /\ up_pc = "failed"
          /\ up_error = IF UpFirstMissing = 1
                          THEN "ValueError: Test Id is required"
                          ELSE "ValueError: File Path is required"
          /\ up_calls = << >>
    /\ (wr_pc \notin { "idle", "start" } /\ WrFirstMissing # 0)
       => /\ wr_pc = "failed"
          /\ wr_error = Raised("ValueError",
               RequiredMessage(RequiredParams(wr_fn)[WrFirstMissing]))
          /\ wr_calls = << >>

\* C21 witness: update_finding_statuses without user_id, with finding_ids
\* empty and without status raised 'User Id is required' and sent nothing.
C21_Witness ==
    /\ wr_fn = "update_finding_statuses"
    /\ wr_args.user_id = None
    /\ wr_args.finding_ids = Some("")
    /\ wr_args.status = None
    /\ wr_pc = "failed"
    /\ Val(wr_error).cls = "ValueError"
    /\ Val(wr_error).msg = "User Id is required"
    /\ wr_calls = << >>

\* ------------------------------------------------------------------------
\* More properties of get_all_paginated_results

\* C22: whenever a response, the first or a later one, has a data object
\* without the field named by the caller, the call has failed with
\* 'Error: <field> not in response JSON'.
C22_SchemaError ==
    \A i \in 1..Len(pg_pages) :
        pg_pages[i].kind = "no_field"
        => /\ pg_pc = "failed"
           /\ pg_error = "Error: field not in response JSON"

LinkAbsent(link) == link = None \/ link = Some("")

\* C24: a status reply COMPLETED whose downloadLink is null or empty does not
\* end polling: after it the poller has neither returned nor raised, and what
\* it does next is sleep and send the status query again; the poller returns
\* only on a reply that is COMPLETED and has a non-empty downloadLink.
C24_CompletedWithoutLink ==
    /\ \A i \in 1..Len(ex_calls) :
         (/\ ex_calls[i].op = "status"
          /\ ex_calls[i].reply = "ok"
          /\ ex_calls[i].status = "COMPLETED"
          /\ LinkAbsent(ex_calls[i].downloadLink))
         => /\ i = Len(ex_calls)
               => ex_pc = "sleep" /\ ~ExReturned /\ ex_error = None
            /\ i + 1 <= Len(ex_calls) => ex_calls[i + 1].op = "sleep"
            /\ i + 2 <= Len(ex_calls) => ex_calls[i + 2].op = "status"
    /\ ExReturned
       => /\ Last(ExStatusCalls).status = "COMPLETED"
          /\ ~LinkAbsent(Last(ExStatusCalls).downloadLink)
          /\ \A i \in 1..(Len(ExStatusCalls) - 1) :
               ExStatusCalls[i].status = "COMPLETED"
               => LinkAbsent(ExStatusCalls[i].downloadLink)

\* C24 witness: COMPLETED with a null link, then COMPLETED with an empty link,
\* then COMPLETED with url_x: three queries, and url_x returned.
C24_Witness ==
    /\ ExReturned
    /\ Len(ExStatusCalls) = 3
    /\ \A i \in 1..3 : ExStatusCalls[i].reply = "ok"
    /\ \A i \in 1..3 : ExStatusCalls[i].status = "COMPLETED"
    /\ ExStatusCalls[1].downloadLink = None
    /\ ExStatusCalls[2].downloadLink = Some("")
    /\ ExStatusCalls[3].downloadLink = Some("url_x")
    /\ ex_url = Some("url_x")

\* the reply that ends polling: COMPLETED with a non-empty downloadLink
ExEnds(c) ==
    c.reply = "ok" /\ c.status = "COMPLETED" /\ ~LinkAbsent(c.downloadLink)

\* the export was launched and every status query so far was answered, none
\* of them with a reply that ends polling
ExStillPending ==
    /\ ex_job # None
    /\ \A i \in 1..Len(ExStatusCalls) :
         ExStatusCalls[i].reply = "ok" /\ ~ExEnds(ExStatusCalls[i])

\* C25: there is no retry count and no timeout: however many status queries
\* have been answered without ending the polling, the poller is still in its
\* loop, about to sleep or to query again, and nothing but the reply stops it;
\* when it returns, the reply to its last status query is the first one that
\* is COMPLETED with a link, so that it has sent exactly k status queries when
\* that reply is the k-th, and it returns that link.
C25_NoTimeout ==
    /\ ExStillPending
       => /\ ex_pc \in { "sleep", "query" }
          /\ ~ExReturned
          /\ ex_error = None
          /\ (ex_pc = "sleep" /\ Len(ExStatusCalls) < MaxPolls)
             => ENABLED ExSleep
          /\ ex_pc = "query" => ENABLED ExStatus
    /\ ExReturned
       => /\ \A i \in 1..Len(ExStatusCalls) :
               ExEnds(ExStatusCalls[i]) <=> i = Len(ExStatusCalls)
          /\ ex_url = Last(ExStatusCalls).downloadLink

\* C25 witness: three status queries were answered RUNNING, thirty seconds
\* have been slept, and the poller is about to sleep again.
C25_Witness ==
    /\ Len(ExStatusCalls) = 3
    /\ \A i \in 1..3 : ExStatusCalls[i].reply = "ok"
    /\ \A i \in 1..3 : ExStatusCalls[i].status = "RUNNING"
    /\ ex_total_time = 3 * SLEEP_TIME
    /\ ex_pc = "sleep"
    /\ ex_error = None

----------------------------------------------------------------------------
\* More properties of the upload

\* C26: file_chunks yields ceil(S / chunk_size) chunks for a file of S bytes,
\* in file order: the first chunk starts at offset 0 and every chunk starts
\* where the one before it ended, the last one ends at the end of the file
\* (so the chunks put together are the file), every chunk has at least one
\* byte and at most chunk_size, every chunk but the last has chunk_size, and
\* an empty file yields no chunk; the chunks the upload PUTs are these.
C26_FileChunks ==
    LET S == up_file_size
        n == up_args.chunk_size
        chunks == file_chunks(S, n)
    IN  /\ Len(chunks) = (S + n - 1) \div n
        /\ S = 0 <=> chunks = << >>
        /\ \A i \in 1..Len(chunks) :
             /\ chunks[i].length >= 1
             /\ chunks[i].length <= n
             /\ i < Len(chunks) => chunks[i].length = n
             /\ chunks[i].offset = IF i = 1 THEN 0
                                   ELSE chunks[i - 1].offset + chunks[i - 1].length
             /\ i = Len(chunks) => chunks[i].offset + chunks[i].length = S
        /\ \A i \in 1..Len(UpPutCalls) : UpPutCalls[i].chunk = chunks[i]

\* C26 witness: a file of two whole chunks and one more KiB was read to its
\* end: three chunks were PUT, the last one of a single KiB.
C26_Witness ==
    /\ up_file_size = 2 * up_args.chunk_size + 1
    /\ Len(UpPutCalls) = 3
    /\ UpPutCalls[3].chunk.length = 1
    /\ UpPutCalls[3].chunk.offset = 2 * up_args.chunk_size
    /\ up_pc = "done"

----------------------------------------------------------------------------
\* The caller's variables

\* C27: get_all_paginated_results leaves the caller's variables as they were:
\* once the call has returned or raised, variables, its 'after' entry
\* included, is what it was when the first request was sent with it.
C27_VariablesUnchanged ==
    (pg_pc \in { "done", "failed" } /\ pg_requests # << >>)
        => pg_variables = pg_requests[1]

----------------------------------------------------------------------------
\* Properties of the listing functions

LsReturned(c) == c.outcome = "returned"

\* C28: listing twice gives the same list: of two calls of the same listing
\* function that both returned, against the unchanged server, the later one
\* returns the list the earlier one returned, and its first request is sent
\* with after = None.
C28_ListingIdempotent ==
    \A i, j \in 1..Len(ls_calls) :
        (i < j /\ ls_calls[i].fn = ls_calls[j].fn
         /\ LsReturned(ls_calls[i]) /\ LsReturned(ls_calls[j]))
        => /\ ls_calls[j].results = ls_calls[i].results
           /\ ls_calls[j].requests[1].after = None

----------------------------------------------------------------------------
\* The launch of a report export

\* the argument combinations the checks of generate_report_download_url let
\* through: one of the two ids, and CSV with one of its three subtypes or PDF
\* with RISK_SUMMARY
ReportArgsPass(a) ==
    /\ (a.asset_version_id # "") # (a.product_id # "")
    /\ \/ a.type = "CSV" /\ a.subtype \in { "ALL_FINDINGS", "ALL_COMPONENTS",
                                            "EXPLOIT_INTELLIGENCE" }
       \/ a.type = "PDF" /\ a.subtype = "RISK_SUMMARY"

\* C29: for every argument combination that passes the checks of
\* generate_report_download_url, once the call is past its checks exactly one
\* launch mutation has been sent, it was sent before any status query, and
\* every status query carries the exportJobId that launch returned.
C29_OneLaunch ==
    (ex_fn \in ReportFunctions /\ ReportArgsPass(ex_args) /\ ex_pc # "start")
    => /\ Len(ExLaunches) = 1
       /\ ex_calls[1].op = "launch"
       /\ \A i \in 1..Len(ExStatusCalls) :
            Some(ExStatusCalls[i].exportId) = ex_calls[1].exportJobId

----------------------------------------------------------------------------
\* Tokens and client ids

\* C30: get_token(client_id, client_secret) only returns a token fetched from
\* the API with that client_id: in every get_token call that returned a token,
\* on any TokenCache object of the organization context, the token belongs to
\* the client_id the call passed.
C30_TokenOfSameClient ==
    \A i \in 1..Len(ci_calls) :
        ci_calls[i].returned # None
        => Val(ci_calls[i].returned).client_id = ci_calls[i].client_id

====
